---- MODULE Spec2Model ----
(***************************************************************************)
(* Model of the explore tool (mewmew/explore, cmd/explore): the page/step  *)
(* walk of one function's visualization, the line-range locator            *)
(* lineRangeOfBlock, the LLVM IR highlight mapper genLLVMHighlight, the    *)
(* run of main over its input files, the source-line highlight mapper      *)
(* findCHighlight and the decompiler calls with their staging directories. *)
(***************************************************************************)
EXTENDS Integers, Sequences, FiniteSets, TLC

VARIABLES
    \* --- page walk of one function (outputFuncVisualization) ---
    pc,          \* position of the walk: "start", "pages", "done", "failed", "panic"
    funcName,    \* f.Name()
    primsFile,   \* content of <dotDir>/<funcName>.json, or NoFile when unreadable
    prims,       \* the parsed primitive list
    npages,      \* total number of pages
    page,        \* page number of the page generated last (0: none yet)
    step,        \* step of that page
    subStep,     \* sub-state of that page: "", "a" or "b"
    stepPrims,   \* primitives handed to the decompiler for that page
    handed,      \* history: handed[p] records the step, sub-state and primitive
                 \* prefix handed to the decompiler for page p
    files,       \* the files written to the output directory
    err,         \* the error returned to the caller ("" when none)
    pageLines,   \* history: pageLines[p] is the list of IR line ranges
                 \* highlighted on page p
    failedOps,   \* history: the delegated operations that failed, in order
    \* --- line-range locator (lineRangeOfBlock) ---
    lpc,         \* "idle", "ready", "returned", "panic"
    funcStr,     \* f.LLString()
    blockStr,    \* block.LLString()
    lineRange,   \* the returned [2]int, <<start, end>>
    \* --- LLVM IR highlight mapper (genLLVMHighlight) ---
    hpc,         \* "idle", "ready", "written", "failed", "panic"
    fnBlocks,    \* f.Blocks: sequence of [name, text]
    fnText,      \* f.LLString()
    primNodes,   \* prim.Nodes
    highlightRanges, \* the ranges collected by the loop
    locateCalls, \* number of lineRangeOfBlock calls made by the loop
    herr,        \* error returned by genLLVMHighlight ("" when none)
    hstep,       \* the step the highlight is generated for
    hfiles,      \* files written by genLLVMHighlight
    \* --- run of main over the input files (main, explore, genVisualization) ---
    rpc,         \* "idle", "file", "funcs", "steps", "exit", "fatal"; for
                 \* Explorer.genVisualization on its own: "gen", "steps1",
                 \* "returned", "failed", "panic"
    llPaths,     \* the input files: the module each of them parses to
    funcNames,   \* the set of names given by the -funcs flag
    hasC,        \* whether the C source of the input files exists
    primsOf,     \* the JSON file of primitives of each function name
    fileIdx,     \* index in llPaths of the input file being processed
    funcs,       \* the functions explore selected in that file
    funcIdx,     \* index in funcs of the function being visualized
    rprims,      \* the primitives genVisualization parsed for that function
    rstep,       \* the step generated last for that function (0: none yet)
    written,     \* the files written so far, in the order of the writes
    rerr,        \* the first error reported ("" when none)
    \* --- source-line highlight mapper (findCHighlight) ---
    spc,         \* "idle", "ready", "returned", "failed"
    srcBlocks,   \* f.Blocks of the debug module: [name, insts, term]
    srcNodes,    \* prim.Nodes
    cLines,      \* the returned [][2]int
    serr,        \* the error returned by findCHighlight ("" when none)
    \* --- temporary directory of the system ---
    tmpDirs,     \* number of "decomp-" staging directories that exist
    \* --- the output directory of one input (main.go) ---
    dpc,         \* "idle", "create", "start", "steps", "done", "failed"
    dLLPath,     \* the input path, as <<name without extension, extension>>
    dForce,      \* the -f flag
    dHasC,       \* whether the C source of the input exists
    dirs0,         \* history: the directories before the run
    dirs,          \* the directories: for each name, whether it exists and its files
    madeDir,     \* the directory that createHTMLDir returned
    primsDirs,   \* history: the graphs directories the primitives were read from
    dstep,       \* the last step of the function that was generated
    derr,        \* the error of the run, "" if none
    \* --- the style of the overview page and its frames (inc/js/style.js) ---
    stored,      \* localStorage item "style": a style name, or "null"
    href,        \* for each frame, the href of its element "chroma_style"
    inflight,    \* for each frame, the "update_style" messages not yet handled
    lastSet,     \* history: the style of the last set_style call, or "null"
    nSet,        \* history: the number of set_style calls
    nForeign,    \* history: the number of messages posted by other windows
    \* --- explorer.explore: the initialization, then the function pages ---
    bpc,         \* "idle", "init", "pages", "returned", "failed"
    bForce,      \* the -f flag
    bStyle,      \* the -style flag
    bout,        \* the output directory: exists, inc copied, Chroma stylesheets
    bdone,       \* history: the initialization steps that succeeded, in order
    bpages,      \* history: the number of function pages written
    berr,        \* the error returned, "" if none
    \* --- explorer.parsePrims and explorer.decompGo on the file system ---
    gpc,         \* "idle", "parse", "pages", "done", "failed"
    gFunc,       \* the function visualized
    gfiles,      \* the files that exist: records [dir, name, content]
    gprims,      \* the primitive list held in memory for the function
    gpage,       \* pages generated so far
    gwrites,     \* history: every file written by the decompilation calls
    gerr         \* the call that failed, "" if none

walkVars == <<pc, funcName, primsFile, prims, npages, page, step, subStep,
              stepPrims, handed, files, err, pageLines, failedOps>>
locVars == <<lpc, funcStr, blockStr, lineRange>>
hlVars == <<hpc, fnBlocks, fnText, primNodes, highlightRanges, locateCalls,
            herr, hstep, hfiles>>
runVars == <<rpc, llPaths, funcNames, hasC, primsOf, fileIdx, funcs, funcIdx,
             rprims, rstep, written, rerr>>
srcVars == <<spc, srcBlocks, srcNodes, cLines, serr>>
dirVars == <<dpc, dLLPath, dForce, dHasC, dirs0, dirs, madeDir, primsDirs, dstep, derr>>
styleVars == <<stored, href, inflight, lastSet, nSet, nForeign>>
bootVars == <<bpc, bForce, bStyle, bout, bdone, bpages, berr>>
goVars == <<gpc, gFunc, gfiles, gprims, gpage, gwrites, gerr>>
envVars == <<dirVars, styleVars, bootVars, goVars>>
coreVars == <<walkVars, locVars, hlVars, runVars, srcVars, tmpDirs>>
vars == <<walkVars, locVars, hlVars, runVars, srcVars, tmpDirs, envVars>>

----------------------------------------------------------------------------
(* Bounds *)

\* Longest primitive list read from the JSON file.
MaxPrims == 3

\* Longest function text and block text of the locator's inputs.
MaxFuncLen == 5
MaxBlockLen == 3

\* Most lines placed before the block in the "bb1" scenario texts.
MaxLinesBefore == 10

\* Most blocks of a function and most nodes of a primitive in the highlight
\* mapper's inputs.
MaxBlocks == 3
MaxNodes == 3

\* Most input files of a run and longest primitive list of a function of the
\* run.
MaxFiles == 2
MaxRunPrims == 2

\* Most failures of the copy of a graph image during one walk.
MaxCopyFailures == 1

\* Largest line number of a debug location and most instructions of the block
\* whose content varies in the source-line highlight mapper's inputs.
MaxLine == 2
MaxInsts == 1

\* Steps of the function whose files are followed into the directories.
MaxDirSteps == 2

\* Calls of set_style, and "update_style" messages from other windows.
MaxSetStyle == 2
MaxForeign == 1

\* Function pages written after the initialization.
MaxBootPages == 3

\* Primitives in the JSON file of a function, for the decompilation calls.
MaxGoPrims == 2

\* Sequences over S of length at most n.
SeqUpTo(S, n) == UNION {[1..k -> S] : k \in 0..n}

----------------------------------------------------------------------------
(* Data *)

\* The newline character.
NL == "\n"

\* An unreadable or malformed JSON file (jsonutil.ParseFile returns an error).
NoFile == [ok |-> FALSE, prims |-> <<>>]

\* A JSON file holding the primitive list ps.
PrimsFile(ps) == [ok |-> TRUE, prims |-> ps]

\* Function names of the module.
FuncNames == {"main", "f"}

\* primitive.Primitive values: a kind and the ordered block names it subsumes.
Primitives ==
    { [Prim |-> "if",   Nodes |-> <<"bb1", "bb2">>],
      [Prim |-> "seq",  Nodes |-> <<"bb3">>],
      [Prim |-> "loop", Nodes |-> <<"bb2", "bb2">>] }

----------------------------------------------------------------------------
(* Primitive Step Sequencer *)

\* Variant of pageCount: one page per primitive instead of two.
pageCount_onePerPrim(ps) == 1 + Len(ps)

\* npages := 1 + 2*len(prims)
pageCount(ps) == 1 + 2 * Len(ps)

\* Variant of pageToStep: the step rounded down instead of up.
pageToStep_floor(p) ==
    IF p = 1
    THEN <<0, "">>
    ELSE LET k == p - 1
         IN  <<k \div 2, IF k % 2 = 1 THEN "a" ELSE "b">>

\* Variant of pageToStep: the sub-states "a" and "b" exchanged.
pageToStep_swapped(p) ==
    IF p = 1
    THEN <<0, "">>
    ELSE LET k == p - 1
         IN  <<(k + 1) \div 2, IF k % 2 = 1 THEN "b" ELSE "a">>

\* The step and sub-state of a page: page 1 is step 0 with no sub-state; for
\* p > 1 and k = p - 1 the step is ceil(k/2), the sub-state "a" when k is odd
\* and "b" when k is even.
pageToStep(p) ==
    IF p = 1
    THEN <<0, "">>
    ELSE LET k == p - 1
         IN  <<(k + 1) \div 2, IF k % 2 = 1 THEN "a" ELSE "b">>

\* Go's s[:n] on a slice of length Len(s): a run-time panic when n is out of
\* range.
GoSliceTo(s, n) ==
    IF 0 <= n /\ n <= Len(s)
    THEN [panic |-> FALSE, val |-> SubSeq(s, 1, n)]
    ELSE [panic |-> TRUE, val |-> <<>>]

\* Variant of outputGo: the "before merge" prefix includes the step's primitive.
outputGoStepPrims_aIncludes(ps, st, sub) ==
    CASE sub = "a" -> GoSliceTo(ps, st)
      [] sub = "b" -> GoSliceTo(ps, st)
      [] OTHER     -> [panic |-> FALSE, val |-> <<>>]

\* Variant of outputGo: the "after merge" prefix reaches one primitive too far.
outputGoStepPrims_bTooFar(ps, st, sub) ==
    CASE sub = "a" -> GoSliceTo(ps, st - 1)
      [] sub = "b" -> GoSliceTo(ps, st + 1)
      [] OTHER     -> [panic |-> FALSE, val |-> <<>>]

\* outputGo: the primitives handed to decompGo for (step, subStep).
outputGoStepPrims(ps, st, sub) ==
    CASE sub = "a" -> GoSliceTo(ps, st - 1)
      [] sub = "b" -> GoSliceTo(ps, st)
      [] OTHER     -> [panic |-> FALSE, val |-> <<>>]

----------------------------------------------------------------------------
(* File names, as the fmt.Sprintf calls build them: <<format, arguments>> *)

\* outputOverview: fmt.Sprintf("%s_%04d.html", funcName, page)
overviewHTMLName(fn, p) == <<"%s_%04d.html", fn, p, "">>

\* Variant of cfaHTMLName: the page is named by its number alone.
cfaHTMLName_numbered(fn, st, sub) == <<"%s_cfa_%04d.html", fn, st, "">>

\* outputCFAHTML: fmt.Sprintf("%s_step_%04d%s_cfa.html", funcName, step, subStep)
cfaHTMLName(fn, st, sub) == <<"%s_step_%04d%s_cfa.html", fn, st, sub>>

\* outputGoHTML: fmt.Sprintf("%s_step_%04d%s_go.html", funcName, step, subStep)
goHTMLName(fn, st, sub) == <<"%s_step_%04d%s_go.html", fn, st, sub>>

\* The data record outputOverview hands to the overview template.
overviewData(fn, p, np, st, sub) ==
    [FuncName |-> fn, PrevPage |-> p - 1, CurPage |-> p, NextPage |-> p + 1,
     NPages |-> np, Step |-> st, SubStep |-> sub]

\* outputOverview: the list Pages of the template data, 1..npages.
overviewPages(np) == [i \in 1..np |-> i]

\* A link of the pagination that is absent (a disabled span).
NoLink == [present |-> FALSE, target |-> <<"", "", 0, "">>]

Link(fn, p) == [present |-> TRUE, target |-> <<"%s_%04d.html", fn, p, "">>]

\* Variant of renderPagination: the 'Next' link is rendered whenever NextPage
\* is at most NPages + 1.
renderPagination_nextPastEnd(d, pages) ==
    [first   |-> Link(d.FuncName, 1),
     prev    |-> IF d.PrevPage >= 1 THEN Link(d.FuncName, d.PrevPage) ELSE NoLink,
     entries |-> [i \in 1..Len(pages) |->
                    IF pages[i] = d.CurPage
                    THEN [current |-> TRUE, page |-> pages[i], link |-> NoLink]
                    ELSE [current |-> FALSE, page |-> pages[i],
                          link |-> Link(d.FuncName, pages[i])]],
     next    |-> IF d.NextPage <= d.NPages + 1 THEN Link(d.FuncName, d.NextPage) ELSE NoLink,
     last    |-> Link(d.FuncName, d.NPages)]

\* overview.tmpl, the pagination: the first-page link, 'Previous' if PrevPage
\* >= 1, one entry per page (the current one is not a link), 'Next' if
\* NextPage <= NPages, the last-page link.
renderPagination(d, pages) ==
    [first   |-> Link(d.FuncName, 1),
     prev    |-> IF d.PrevPage >= 1 THEN Link(d.FuncName, d.PrevPage) ELSE NoLink,
     entries |-> [i \in 1..Len(pages) |->
                    IF pages[i] = d.CurPage
                    THEN [current |-> TRUE, page |-> pages[i], link |-> NoLink]
                    ELSE [current |-> FALSE, page |-> pages[i],
                          link |-> Link(d.FuncName, pages[i])]],
     next    |-> IF d.NextPage <= d.NPages THEN Link(d.FuncName, d.NextPage) ELSE NoLink,
     last    |-> Link(d.FuncName, d.NPages)]

\* overview.tmpl, the four panes: the src of each iframe.
overviewFrames(d) ==
    [frame_c    |-> <<"%s_step_%04d_c.html", d.FuncName, d.Step, "">>,
     frame_llvm |-> <<"%s_step_%04d_llvm.html", d.FuncName, d.Step, "">>,
     frame_cfa  |-> <<"%s_step_%04d%s_cfa.html", d.FuncName, d.Step, d.SubStep>>,
     frame_go   |-> <<"%s_step_%04d%s_go.html", d.FuncName, d.Step, d.SubStep>>]

\* outputOverview: the file it writes.
outputOverview(fn, p, np, st, sub) ==
    [name |-> overviewHTMLName(fn, p), data |-> overviewData(fn, p, np, st, sub)]

\* outputCFA / outputCFAHTML: the file it writes.
outputCFAHTML(fn, st, sub) ==
    [name |-> cfaHTMLName(fn, st, sub),
     data |-> [FuncName |-> fn, Step |-> st, SubStep |-> sub]]

\* outputGoHTML: the file it writes.
outputGoHTML(fn, st, sub) ==
    [name |-> goHTMLName(fn, st, sub),
     data |-> [FuncName |-> fn, Step |-> st, SubStep |-> sub]]

----------------------------------------------------------------------------
(* Line-Range Locator *)

\* Characters of the small texts: two letters and the newline character.
Alphabet == {"a", "b", NL}

\* The text sub occurs in s at byte offset i (0-based).
HasAt(s, sub, i) ==
    /\ 0 <= i
    /\ i + Len(sub) <= Len(s)
    /\ \A j \in 1..Len(sub) : s[i + j] = sub[j]

RECURSIVE IndexFrom(_, _, _)
\* The scan of strings.Index from offset i on: the first offset at which sub
\* occurs, -1 when there is none.
IndexFrom(s, sub, i) ==
    IF i + Len(sub) > Len(s) THEN -1
    ELSE IF HasAt(s, sub, i) THEN i
    ELSE IndexFrom(s, sub, i + 1)

RECURSIVE LastIndexFrom(_, _, _)
\* The scan of strings.LastIndex from offset i down.
LastIndexFrom(s, sub, i) ==
    IF i < 0 THEN -1
    ELSE IF HasAt(s, sub, i) THEN i
    ELSE LastIndexFrom(s, sub, i - 1)

\* Variant of stringsIndex: the last occurrence (strings.LastIndex).
stringsIndex_last(s, sub) == LastIndexFrom(s, sub, Len(s) - Len(sub))

\* strings.Index(s, sub): offset of the first occurrence of sub in s, or -1.
stringsIndex(s, sub) == IndexFrom(s, sub, 0)

RECURSIVE stringsCount(_, _)
\* strings.Count(s, c) for a one-character c: the occurrences of c in s.
stringsCount(s, c) ==
    IF s = <<>> THEN 0
    ELSE (IF Head(s) = c THEN 1 ELSE 0) + stringsCount(Tail(s), c)

\* Variant of lineRangeOfBlock: 0-based start line.
lineRangeOfBlock_zeroBased(fs, bs) ==
    LET pos == stringsIndex(fs, bs)
    IN  IF pos = -1
        THEN [panic |-> TRUE, val |-> <<0, 0>>]
        ELSE LET before == SubSeq(fs, 1, pos)
                 start  == stringsCount(before, NL)
                 n      == stringsCount(bs, NL)
             IN  [panic |-> FALSE, val |-> <<start, start + n>>]

\* Variant of lineRangeOfBlock: the end line taken from the line count of the
\* block instead of its newline count.
lineRangeOfBlock_endByLines(fs, bs) ==
    LET pos == stringsIndex(fs, bs)
    IN  IF pos = -1
        THEN [panic |-> TRUE, val |-> <<0, 0>>]
        ELSE LET before == SubSeq(fs, 1, pos)
                 start  == 1 + stringsCount(before, NL)
                 n      == stringsCount(bs, NL)
             IN  [panic |-> FALSE, val |-> <<start, start + n - 1>>]

\* Variant of lineRangeOfBlock: a block that is not found yields the zero
\* range instead of a panic.
lineRangeOfBlock_noPanic(fs, bs) ==
    LET pos == stringsIndex(fs, bs)
    IN  IF pos = -1
        THEN [panic |-> FALSE, val |-> <<0, 0>>]
        ELSE LET before == SubSeq(fs, 1, pos)
                 start  == 1 + stringsCount(before, NL)
                 n      == stringsCount(bs, NL)
             IN  [panic |-> FALSE, val |-> <<start, start + n>>]

\* lineRangeOfBlock on funcStr = f.LLString() and blockStr = block.LLString():
\* the 1-based range [start, end], or a panic when the block text is not found.
lineRangeOfBlock(fs, bs) ==
    LET pos == stringsIndex(fs, bs)
    IN  IF pos = -1
        THEN [panic |-> TRUE, val |-> <<0, 0>>]
        ELSE LET before == SubSeq(fs, 1, pos)
                 start  == 1 + stringsCount(before, NL)
                 n      == stringsCount(bs, NL)
                 end    == start + n
             IN  [panic |-> FALSE, val |-> <<start, end>>]

\* The block text of the scenario, "bb1:\n  ret void\n", and the same text
\* without its final newline character.
Bb1Text ==
    <<"b", "b", "1", ":", NL, " ", " ", "r", "e", "t", " ", "v", "o", "i", "d", NL>>
Bb1TextNoNL == SubSeq(Bb1Text, 1, Len(Bb1Text) - 1)
ScenarioBlocks == {Bb1Text, Bb1TextNoNL}

RECURSIVE LinesBefore(_)
\* k lines of other text, each ended by a newline character.
LinesBefore(k) == IF k = 0 THEN <<>> ELSE <<"x", NL>> \o LinesBefore(k - 1)

\* A function text holding the block text b after k other lines.
ScenarioFunc(k, b) == LinesBefore(k) \o b \o <<"}", NL>>

\* The inputs of the locator: any small function text with any small block
\* text, and the scenario texts.
LocInit ==
    /\ lpc = "ready"
    /\ lineRange = <<0, 0>>
    /\ \/ /\ funcStr \in SeqUpTo(Alphabet, MaxFuncLen)
          /\ blockStr \in SeqUpTo(Alphabet, MaxBlockLen)
       \/ /\ blockStr \in ScenarioBlocks
          /\ \E k \in 0..MaxLinesBefore : \E b \in ScenarioBlocks :
               funcStr = ScenarioFunc(k, b)

\* One call of lineRangeOfBlock.
Locate ==
    /\ lpc = "ready"
    /\ LET r == lineRangeOfBlock(funcStr, blockStr)
       IN  IF r.panic
           THEN lpc' = "panic" /\ UNCHANGED lineRange
           ELSE lpc' = "returned" /\ lineRange' = r.val
    /\ UNCHANGED <<funcStr, blockStr>>
    /\ UNCHANGED <<envVars, walkVars, hlVars, runVars, srcVars, tmpDirs>>

----------------------------------------------------------------------------
(* Highlight Mapper: LLVM IR lines *)

\* The basic blocks a function is built from: a name and the text of
\* block.LLString(), a label line followed by instruction lines and the
\* terminator line (no newline character after the terminator).
BlockSet ==
    { [name |-> "bb1", text |-> <<"1", NL, "r">>],
      [name |-> "bb2", text |-> <<"2", NL, "i", NL, "r">>],
      [name |-> "bb3", text |-> <<"3", NL, "i", NL, "i", NL, "r">>] }

\* The block names a primitive may list: those of BlockSet and one that no
\* function has.
NodeNames == {b.name : b \in BlockSet} \cup {"bb_missing"}

RECURSIVE BodyText(_)
\* The text of the blocks bs in order, each followed by a newline character
\* and separated by an empty line.
BodyText(bs) ==
    IF bs = <<>> THEN <<>>
    ELSE Head(bs).text \o <<NL>>
         \o (IF Len(bs) > 1 THEN <<NL>> ELSE <<>>) \o BodyText(Tail(bs))

\* The text of f.LLString() for a function with the blocks bs: the header
\* line, the blocks and the closing brace.
FuncText(bs) == <<"d", NL>> \o BodyText(bs) \o <<"}">>

\* Sequences of distinct blocks of BlockSet, of length 1..n.
BlockLists(n) ==
    {bs \in SeqUpTo(BlockSet, n) :
        /\ bs # <<>>
        /\ \A i \in 1..Len(bs) : \A j \in 1..Len(bs) : i # j => bs[i] # bs[j]}

\* Variant of findBlock: the first block of the function, whatever its name.
findBlock_firstBlock(blocks, blockName) ==
    IF blocks # <<>>
    THEN [ok |-> TRUE, block |-> blocks[1]]
    ELSE [ok |-> FALSE, block |-> [name |-> "", text |-> <<>>]]

\* findBlock: the first block of the function with the given name, or an
\* error when there is none.
findBlock(blocks, blockName) ==
    IF \E i \in 1..Len(blocks) : blocks[i].name = blockName
    THEN [ok |-> TRUE,
          block |-> blocks[CHOOSE i \in 1..Len(blocks) :
                              /\ blocks[i].name = blockName
                              /\ \A j \in 1..(i - 1) : blocks[j].name # blockName]]
    ELSE [ok |-> FALSE, block |-> [name |-> "", text |-> <<>>]]

RECURSIVE highlightLoop_dedup(_, _, _, _, _)
\* Variant of highlightLoop: a range that is already listed is not listed again.
highlightLoop_dedup(blocks, text, nodes, ranges, calls) ==
    IF nodes = <<>>
    THEN [status |-> "ok", ranges |-> ranges, calls |-> calls]
    ELSE LET found == findBlock(blocks, Head(nodes))
         IN  IF ~found.ok
             THEN [status |-> "findBlock", ranges |-> ranges, calls |-> calls]
             ELSE LET r == lineRangeOfBlock(text, found.block.text)
                  IN  IF r.panic
                      THEN [status |-> "panic", ranges |-> ranges, calls |-> calls + 1]
                      ELSE highlightLoop_dedup(blocks, text, Tail(nodes),
                               IF \E i \in 1..Len(ranges) : ranges[i] = r.val
                               THEN ranges ELSE Append(ranges, r.val),
                               calls + 1)

RECURSIVE highlightLoop(_, _, _, _, _)
\* The loop of genLLVMHighlight over prim.Nodes: findBlock, then
\* lineRangeOfBlock, then append. It ends with the error of findBlock, with the
\* panic of lineRangeOfBlock, or with one range per node.
highlightLoop(blocks, text, nodes, ranges, calls) ==
    IF nodes = <<>>
    THEN [status |-> "ok", ranges |-> ranges, calls |-> calls]
    ELSE LET found == findBlock(blocks, Head(nodes))
         IN  IF ~found.ok
             THEN [status |-> "findBlock", ranges |-> ranges, calls |-> calls]
             ELSE LET r == lineRangeOfBlock(text, found.block.text)
                  IN  IF r.panic
                      THEN [status |-> "panic", ranges |-> ranges, calls |-> calls + 1]
                      ELSE highlightLoop(blocks, text, Tail(nodes),
                                         Append(ranges, r.val), calls + 1)

\* genLLVMHighlight: fmt.Sprintf("%s_llvm_%04d.html", f.Name(), step)
llvmHTMLName(fn, st) == <<"%s_llvm_%04d.html", fn, st, "">>

\* The inputs of genLLVMHighlight: a function, its text (that of its blocks,
\* or a text that lacks the first block), a primitive's nodes and a step.
HlInit ==
    /\ hpc = "ready"
    /\ fnBlocks \in BlockLists(MaxBlocks)
    /\ fnText \in {FuncText(fnBlocks), FuncText(Tail(fnBlocks))}
    /\ primNodes \in SeqUpTo(NodeNames, MaxNodes)
    /\ hstep \in 1..2
    /\ highlightRanges = <<>>
    /\ locateCalls = 0
    /\ herr = ""
    /\ hfiles = {}

\* genLLVMHighlight: collect the ranges of the primitive's nodes, format the
\* function text with those lines highlighted and write the HTML file. failAt
\* names the collaborator call that fails after the loop, if any.
GenLLVMHighlight ==
    /\ hpc = "ready"
    /\ LET res == highlightLoop(fnBlocks, fnText, primNodes, <<>>, 0)
       IN  /\ highlightRanges' = res.ranges
           /\ locateCalls' = res.calls
           /\ CASE res.status = "findBlock" ->
                     /\ hpc' = "failed"
                     /\ herr' = "findBlock"
                     /\ UNCHANGED hfiles
                [] res.status = "panic" ->
                     /\ hpc' = "panic"
                     /\ UNCHANGED <<herr, hfiles>>
                [] OTHER ->
                     \E failAt \in {"", "WriteCSS", "Tokenise", "Format", "WriteFile"} :
                        /\ herr' = failAt
                        /\ hpc' = IF failAt = "" THEN "written" ELSE "failed"
                        /\ hfiles' = IF failAt = ""
                                     THEN {[name |-> llvmHTMLName("main", hstep),
                                            lines |-> res.ranges]}
                                     ELSE {}
    /\ UNCHANGED <<fnBlocks, fnText, primNodes, hstep>>
    /\ UNCHANGED <<envVars, walkVars, locVars, runVars, srcVars, tmpDirs>>

----------------------------------------------------------------------------
(* Run of main over the input files: main, explore, genVisualization *)

\* The block of BlockSet with the given name.
Block(n) == CHOOSE b \in BlockSet : b.name = n

\* The functions of an input module: a declaration (no blocks) and two
\* definitions.
FuncDecl == [name |-> "decl", blocks |-> <<>>]
FuncMain == [name |-> "main", blocks |-> <<Block("bb1"), Block("bb2"), Block("bb3")>>]
FuncF == [name |-> "f", blocks |-> <<Block("bb1")>>]

\* What parseModule returns for an input file: an error, a module without
\* functions, or a module with functions.
Modules ==
    { [ok |-> FALSE, funcs |-> <<>>],
      [ok |-> TRUE, funcs |-> <<>>],
      [ok |-> TRUE, funcs |-> <<FuncDecl, FuncMain, FuncF>>] }

\* The primitives found in the JSON files of a run.
RunPrimitives ==
    {p \in Primitives : p.Prim = "if"} \cup {[Prim |-> "seq", Nodes |-> <<"bb1">>]}

\* The JSON files of a run: unreadable, or a list of primitives.
RunPrimsFiles == {NoFile} \cup {PrimsFile(ps) : ps \in SeqUpTo(RunPrimitives, MaxRunPrims)}

\* Variant of selectFuncs: every function of the module, whatever -funcs says.
selectFuncs_all(m, names) == m.funcs

\* Variant of selectFuncs: the functions in reverse module order.
selectFuncs_reversed(m, names) ==
    LET sel == SelectSeq(m.funcs, LAMBDA f : ~(Cardinality(names) > 0 /\ f.name \notin names))
    IN  [k \in 1..Len(sel) |-> sel[Len(sel) + 1 - k]]

\* explore: the functions set by -funcs, or all functions when -funcs is not
\* used, in module order.
selectFuncs(m, names) ==
    SelectSeq(m.funcs, LAMBDA f : ~(Cardinality(names) > 0 /\ f.name \notin names))

\* Variant of mainFatal: the run goes on with the next input file.
mainFatal_nextFile(i) == [rpc |-> "file", fileIdx |-> i + 1]

\* Variant of mainFatal: the run tries the same input file again.
mainFatal_retry(i) == [rpc |-> "file", fileIdx |-> i]

\* main: log.Fatalf on an error ends the process at the current input file.
mainFatal(i) == [rpc |-> "fatal", fileIdx |-> i]

\* highlightC: fmt.Sprintf("%s_c_%04d.html", f.Name(), step)
cHTMLName(fn, st) == <<"%s_c_%04d.html", fn, st, "">>

\* highlightGo: fmt.Sprintf("%s_go_%04d.html", funcName, step)
highlightGoName(fn, st) == <<"%s_go_%04d.html", fn, st, "">>

\* genVisualization: fmt.Sprintf("%s_cfa_%04d.html", funcName, step)
cfaStepName(fn, st) == <<"%s_cfa_%04d.html", fn, st, "">>

\* The calls of decompGo that may fail.
DecompFailures == {"TempDir", "dircopy.Copy", "MkdirAll", "jsonutil.WriteFile", "cmd.Run"}

\* decompGo of main.go: create the staging directory, copy the LLVM IR file,
\* create the graphs directory, write the JSON file, run ll2go2. The staging
\* directory is left in place on every path after its creation.
decompGo(failAt) ==
    [ok |-> failAt \notin DecompFailures,
     staged |-> IF failAt = "TempDir" THEN 0 ELSE 1]

\* explorer.decompGo of output_go.go: the same calls, with the removal of the
\* staging directory deferred right after its creation, so that it runs on
\* every return that follows.
explorer_decompGo(failAt) ==
    LET created == IF failAt = "TempDir" THEN 0 ELSE 1
        removed == created
    IN  [ok |-> failAt \notin DecompFailures, staged |-> created - removed]

\* The collaborator calls of one step of genVisualization that may fail.
StepFailures ==
    {"", "asm.ParseFile", "highlightC", "highlightGo", "genOverview", "genStep",
     "WriteFile", "genLLVMHighlight"} \cup DecompFailures

\* highlightCRanges: the error of the first findBlock that fails, if any.
highlightCRanges(blocks, nodes) ==
    IF \A i \in 1..Len(nodes) : findBlock(blocks, nodes[i]).ok
    THEN "" ELSE "findBlock"

\* The body of the loop of genVisualization for one primitive: highlightC
\* (when the C source exists), highlightGo, genOverview, genStep and the write
\* of its page, genLLVMHighlight. The result is the error returned ("" when
\* none), the files written before it in order, and the staging directories
\* left behind.
genVisualizationStep(f, prim, st, c, failAt) ==
    LET cErr == IF ~c THEN ""
                ELSE IF failAt = "asm.ParseFile" THEN failAt
                ELSE IF highlightCRanges(f.blocks, prim.Nodes) # "" THEN "findBlock"
                ELSE IF failAt = "highlightC" THEN failAt
                ELSE ""
        cFiles == IF c /\ cErr = "" THEN <<cHTMLName(f.name, st)>> ELSE <<>>
        dec == decompGo(failAt)
        goErr == IF ~dec.ok \/ failAt = "highlightGo" THEN failAt ELSE ""
        ovErr == IF failAt = "genOverview" THEN failAt ELSE ""
        cfaErr == IF failAt \in {"genStep", "WriteFile"} THEN failAt ELSE ""
        loop == highlightLoop(f.blocks, FuncText(f.blocks), prim.Nodes, <<>>, 0)
        llErr == IF loop.status # "ok" THEN loop.status
                 ELSE IF failAt = "genLLVMHighlight" THEN failAt
                 ELSE ""
    IN  IF cErr # "" THEN [err |-> cErr, files |-> <<>>, staged |-> 0]
        ELSE IF goErr # "" THEN [err |-> goErr, files |-> cFiles, staged |-> dec.staged]
        ELSE IF ovErr # ""
        THEN [err |-> ovErr, files |-> cFiles \o <<highlightGoName(f.name, st)>>,
              staged |-> dec.staged]
        ELSE IF cfaErr # ""
        THEN [err |-> cfaErr,
              files |-> cFiles \o <<highlightGoName(f.name, st), overviewHTMLName(f.name, st)>>,
              staged |-> dec.staged]
        ELSE [err |-> llErr,
              files |-> cFiles \o <<highlightGoName(f.name, st), overviewHTMLName(f.name, st),
                                    cfaStepName(f.name, st)>>
                        \o (IF llErr = "" THEN <<llvmHTMLName(f.name, st)>> ELSE <<>>),
              staged |-> dec.staged]

RunInit ==
    /\ rpc = "file"
    /\ llPaths \in SeqUpTo(Modules, MaxFiles) \ {<<>>}
    /\ funcNames \in {{}, {"main"}, {"f"}}
    /\ hasC \in BOOLEAN
    /\ primsOf \in [FuncNames -> RunPrimsFiles]
    /\ fileIdx = 1
    /\ funcs = <<>>
    /\ funcIdx = 1
    /\ rprims = <<>>
    /\ rstep = 0
    /\ written = <<>>
    /\ rerr = ""

RunIdle ==
    /\ rpc = "idle"
    /\ llPaths = <<>>
    /\ funcNames = {}
    /\ hasC = FALSE
    /\ primsOf = [n \in FuncNames |-> NoFile]
    /\ fileIdx = 1
    /\ funcs = <<>>
    /\ funcIdx = 1
    /\ rprims = <<>>
    /\ rstep = 0
    /\ written = <<>>
    /\ rerr = ""

\* main, one iteration of the loop over llPaths up to the call of explore:
\* parse the module, skip a module without functions, create the output
\* directory, select the functions.
RunFile ==
    /\ rpc = "file"
    /\ fileIdx <= Len(llPaths)
    /\ LET m == llPaths[fileIdx]
       IN  IF ~m.ok
           THEN /\ rerr' = "parseModule"
                /\ rpc' = mainFatal(fileIdx).rpc
                /\ fileIdx' = mainFatal(fileIdx).fileIdx
                /\ UNCHANGED <<funcs, funcIdx>>
           ELSE IF Len(m.funcs) = 0
           THEN /\ fileIdx' = fileIdx + 1
                /\ UNCHANGED <<rpc, rerr, funcs, funcIdx>>
           ELSE \E failAt \in {"", "createHTMLDir"} :
                  IF failAt # ""
                  THEN /\ rerr' = failAt
                       /\ rpc' = mainFatal(fileIdx).rpc
                       /\ fileIdx' = mainFatal(fileIdx).fileIdx
                       /\ UNCHANGED <<funcs, funcIdx>>
                  ELSE /\ funcs' = selectFuncs(m, funcNames)
                       /\ funcIdx' = 1
                       /\ rpc' = "funcs"
                       /\ UNCHANGED <<rerr, fileIdx>>
    /\ UNCHANGED <<llPaths, funcNames, hasC, primsOf, rprims, rstep, written>>
    /\ UNCHANGED <<envVars, walkVars, locVars, hlVars, srcVars, tmpDirs>>

\* explore, one iteration of the loop over the selected functions: skip a
\* declaration; otherwise the start of genVisualization: parse the primitives,
\* read the C source when it exists, copy the styles.
RunFunc ==
    /\ rpc = "funcs"
    /\ funcIdx <= Len(funcs)
    /\ LET f == funcs[funcIdx]
       IN  IF Len(f.blocks) = 0
           THEN /\ funcIdx' = funcIdx + 1
                /\ UNCHANGED <<rpc, rerr, fileIdx, rprims, rstep>>
           ELSE \E failAt \in {"", "ReadFile", "copyStyles"} :
                  LET e == IF ~primsOf[f.name].ok THEN "parsePrims"
                           ELSE IF hasC /\ failAt = "ReadFile" THEN failAt
                           ELSE IF failAt = "copyStyles" THEN failAt
                           ELSE ""
                  IN  IF e # ""
                      THEN /\ rerr' = e
                           /\ rpc' = mainFatal(fileIdx).rpc
                           /\ fileIdx' = mainFatal(fileIdx).fileIdx
                           /\ UNCHANGED <<funcIdx, rprims, rstep>>
                      ELSE /\ rprims' = primsOf[f.name].prims
                           /\ rstep' = 0
                           /\ rpc' = "steps"
                           /\ UNCHANGED <<rerr, fileIdx, funcIdx>>
    /\ UNCHANGED <<llPaths, funcNames, hasC, primsOf, funcs, written>>
    /\ UNCHANGED <<envVars, walkVars, locVars, hlVars, srcVars, tmpDirs>>

\* genVisualization, one iteration of the loop over the primitives.
RunStep ==
    /\ rpc = "steps"
    /\ rstep < Len(rprims)
    /\ \E failAt \in StepFailures :
         LET r == genVisualizationStep(funcs[funcIdx], rprims[rstep + 1], rstep + 1,
                                       hasC, failAt)
         IN  /\ written' = written \o [i \in 1..Len(r.files) |->
                                          [file |-> fileIdx, name |-> r.files[i]]]
             /\ tmpDirs' = tmpDirs + r.staged
             /\ rstep' = rstep + 1
             /\ IF r.err = ""
                THEN UNCHANGED <<rpc, rerr, fileIdx>>
                ELSE /\ rerr' = r.err
                     /\ rpc' = mainFatal(fileIdx).rpc
                     /\ fileIdx' = mainFatal(fileIdx).fileIdx
    /\ UNCHANGED <<llPaths, funcNames, hasC, primsOf, funcs, funcIdx, rprims>>
    /\ UNCHANGED <<envVars, walkVars, locVars, hlVars, srcVars>>

\* genVisualization returns nil after the last primitive; explore goes on with
\* the next function.
RunFuncDone ==
    /\ rpc = "steps"
    /\ rstep = Len(rprims)
    /\ rpc' = "funcs"
    /\ funcIdx' = funcIdx + 1
    /\ UNCHANGED <<llPaths, funcNames, hasC, primsOf, fileIdx, funcs, rprims, rstep,
                   written, rerr>>
    /\ UNCHANGED <<envVars, walkVars, locVars, hlVars, srcVars, tmpDirs>>

\* explore returns nil after the last function; main goes on with the next
\* input file.
RunFileDone ==
    /\ rpc = "funcs"
    /\ funcIdx > Len(funcs)
    /\ rpc' = "file"
    /\ fileIdx' = fileIdx + 1
    /\ UNCHANGED <<llPaths, funcNames, hasC, primsOf, funcs, funcIdx, rprims, rstep,
                   written, rerr>>
    /\ UNCHANGED <<envVars, walkVars, locVars, hlVars, srcVars, tmpDirs>>

\* main returns after the last input file.
RunExit ==
    /\ rpc = "file"
    /\ fileIdx > Len(llPaths)
    /\ rpc' = "exit"
    /\ UNCHANGED <<llPaths, funcNames, hasC, primsOf, fileIdx, funcs, funcIdx, rprims,
                   rstep, written, rerr>>
    /\ UNCHANGED <<envVars, walkVars, locVars, hlVars, srcVars, tmpDirs>>

----------------------------------------------------------------------------
(* genVisualization of the Explorer type (output_llvm.go), for one function *)

\* Explorer.highlightGo, up to the call of decompGo: parse the primitives
\* again and take prims[:step].
highlightGoPrims(ps, st) == GoSliceTo(ps, st)

\* Explorer.genVisualization: nsteps := 1 + 2*len(prims)
Explorer_nsteps(ps) == 1 + 2 * Len(ps)

\* Explorer.genOverview: the data it hands to the template, with the pages
\* 1..nsteps of the pagination.
Explorer_genOverviewData(fn, st, nsteps) ==
    [Pages |-> [i \in 1..nsteps |-> i], Step |-> st, Prev |-> st - 1, Next |-> st + 1,
     NSteps |-> nsteps, FuncName |-> fn]

\* Explorer.decompGo: as decompGo of main.go, the staging directory is left in
\* place.
Explorer_decompGo(failAt) == decompGo(failAt)

ExplorerInit ==
    /\ rpc = "gen"
    /\ \E f \in {FuncMain, FuncF} :
         /\ llPaths = <<[ok |-> TRUE, funcs |-> <<f>>]>>
         /\ funcs = <<f>>
         /\ \E pf \in RunPrimsFiles :
              primsOf = [n \in FuncNames |-> IF n = f.name THEN pf ELSE NoFile]
    /\ funcNames = {}
    /\ hasC \in BOOLEAN
    /\ fileIdx = 1
    /\ funcIdx = 1
    /\ rprims = <<>>
    /\ rstep = 0
    /\ written = <<>>
    /\ rerr = ""

\* Explorer.genVisualization up to its loop: parse the primitives, copy the
\* styles, then "First overview": highlightGo(f.Name(), 1), which takes
\* prims[:1], decompiles and writes the Go page of step 1.
ExplorerGenStart ==
    /\ rpc = "gen"
    /\ LET f == funcs[funcIdx]
       IN  \E failAt \in {"", "copyStyles", "highlightGo"} \cup DecompFailures :
             IF ~primsOf[f.name].ok \/ failAt = "copyStyles"
             THEN /\ rerr' = IF ~primsOf[f.name].ok THEN "parsePrims" ELSE failAt
                  /\ rpc' = "failed"
                  /\ UNCHANGED <<rprims, written, tmpDirs>>
             ELSE LET sl  == highlightGoPrims(primsOf[f.name].prims, 1)
                      dec == Explorer_decompGo(failAt)
                  IN  /\ rprims' = primsOf[f.name].prims
                      /\ IF sl.panic
                         THEN /\ rpc' = "panic"
                              /\ UNCHANGED <<rerr, written, tmpDirs>>
                         ELSE /\ tmpDirs' = tmpDirs + dec.staged
                              /\ IF failAt # ""
                                 THEN /\ rerr' = failAt
                                      /\ rpc' = "failed"
                                      /\ UNCHANGED written
                                 ELSE /\ written' = Append(written,
                                            [file |-> fileIdx, name |-> highlightGoName(f.name, 1)])
                                      /\ rpc' = "steps1"
                                      /\ UNCHANGED rerr
    /\ UNCHANGED <<llPaths, funcNames, hasC, primsOf, fileIdx, funcs, funcIdx, rstep>>
    /\ UNCHANGED <<envVars, walkVars, locVars, hlVars, srcVars>>

\* Explorer.genVisualization, one iteration of the loop over the primitives:
\* outputC, highlightGo, genOverview, genStep and the write of its page,
\* genLLVMHighlight, in the order of the loop of main.go.
ExplorerStep ==
    /\ rpc = "steps1"
    /\ rstep < Len(rprims)
    /\ \E failAt \in StepFailures :
         LET r == genVisualizationStep(funcs[funcIdx], rprims[rstep + 1], rstep + 1,
                                       hasC, failAt)
         IN  /\ written' = written \o [i \in 1..Len(r.files) |->
                                          [file |-> fileIdx, name |-> r.files[i]]]
             /\ tmpDirs' = tmpDirs + r.staged
             /\ rstep' = rstep + 1
             /\ IF r.err = ""
                THEN UNCHANGED <<rpc, rerr>>
                ELSE rerr' = r.err /\ rpc' = "failed"
    /\ UNCHANGED <<llPaths, funcNames, hasC, primsOf, fileIdx, funcs, funcIdx, rprims>>
    /\ UNCHANGED <<envVars, walkVars, locVars, hlVars, srcVars>>

\* Explorer.genVisualization returns nil after the last primitive.
ExplorerReturn ==
    /\ rpc = "steps1"
    /\ rstep = Len(rprims)
    /\ rpc' = "returned"
    /\ UNCHANGED <<llPaths, funcNames, hasC, primsOf, fileIdx, funcs, funcIdx, rprims,
                   rstep, written, rerr>>
    /\ UNCHANGED <<envVars, walkVars, locVars, hlVars, srcVars, tmpDirs>>

----------------------------------------------------------------------------
(* Highlight Mapper: source lines *)

\* A !dbg attachment whose node is a DILocation of the given line.
DbgLoc(l) == [Name |-> "dbg", Node |-> [kind |-> "DILocation", Line |-> l]]

\* A !dbg attachment whose node is not a DILocation, and an attachment of
\* another name.
DbgOther == [Name |-> "dbg", Node |-> [kind |-> "other", Line |-> 0]]
Tbaa == [Name |-> "tbaa", Node |-> [kind |-> "other", Line |-> 0]]

\* v.MDAttachments() of an instruction or terminator: none, a debug location
\* (line 0 is what compilers attach to generated code), other attachments,
\* and a debug location next to another attachment. An instruction has at
\* most one !dbg attachment.
MDValues ==
    {<<>>} \cup {<<DbgLoc(l)>> : l \in 0..MaxLine}
    \cup {<<Tbaa>>, <<DbgOther>>, <<Tbaa, DbgLoc(MaxLine)>>}

\* The blocks of the function of the debug module: "bb1" with any
\* instructions and terminator, followed by a fixed "bb2".
SrcBlockLists ==
    { << [name |-> "bb1", insts |-> is, term |-> t],
         [name |-> "bb2", insts |-> << <<DbgLoc(1)>>, <<>> >>, term |-> <<Tbaa>>] >> :
        is \in SeqUpTo(MDValues, MaxInsts), t \in MDValues }

RECURSIVE findLineFrom(_, _)
\* The loop of findLine from attachment i on.
findLineFrom(v, i) ==
    IF i > Len(v) THEN [ok |-> FALSE, line |-> <<0, 0>>]
    ELSE IF v[i].Name = "dbg" /\ v[i].Node.kind = "DILocation"
    THEN [ok |-> TRUE, line |-> <<v[i].Node.Line, v[i].Node.Line>>]
    ELSE findLineFrom(v, i + 1)

\* findLine: the line of the first !dbg attachment that is a DILocation.
findLine(v) == findLineFrom(v, 1)

RECURSIVE everyDbgLine(_)
\* lineRangeOfBlockInC, inner loop: one range for every !dbg attachment of a
\* value that is a DILocation.
everyDbgLine(v) ==
    IF v = <<>> THEN <<>>
    ELSE (IF Head(v).Name = "dbg" /\ Head(v).Node.kind = "DILocation"
          THEN << <<Head(v).Node.Line, Head(v).Node.Line>> >> ELSE <<>>)
         \o everyDbgLine(Tail(v))

RECURSIVE everyDbgLineOf(_)
\* lineRangeOfBlockInC, outer loop over the values.
everyDbgLineOf(vs) ==
    IF vs = <<>> THEN <<>> ELSE everyDbgLine(Head(vs)) \o everyDbgLineOf(Tail(vs))

\* lineRangeOfBlockInC of main.go: the ranges of the instructions and the
\* terminator of a block.
lineRangeOfBlockInC(block) == everyDbgLineOf(block.insts \o <<block.term>>)

RECURSIVE findInstLines(_)
\* The loop of findBlockLines over the instructions.
findInstLines(insts) ==
    IF insts = <<>> THEN <<>>
    ELSE (IF findLine(Head(insts)).ok THEN <<findLine(Head(insts)).line>> ELSE <<>>)
         \o findInstLines(Tail(insts))

\* Variant of findBlockLines: the terminator is visited before the
\* instructions.
findBlockLines_termFirst(block) ==
    (IF findLine(block.term).ok THEN <<findLine(block.term).line>> ELSE <<>>)
    \o findInstLines(block.insts)

\* findBlockLines: the lines of the instructions, then that of the terminator.
findBlockLines(block) ==
    findInstLines(block.insts)
    \o (IF findLine(block.term).ok THEN <<findLine(block.term).line>> ELSE <<>>)

RECURSIVE findCHighlight(_, _, _)
\* findCHighlight: for each node, findBlock, then append the lines of the
\* block; the error of findBlock ends it with no lines.
findCHighlight(blocks, nodes, lines) ==
    IF nodes = <<>> THEN [ok |-> TRUE, lines |-> lines]
    ELSE LET found == findBlock(blocks, Head(nodes))
         IN  IF ~found.ok
             THEN [ok |-> FALSE, lines |-> <<>>]
             ELSE findCHighlight(blocks, Tail(nodes),
                                 lines \o findBlockLines(found.block))

SrcInit ==
    /\ spc = "ready"
    /\ srcBlocks \in SrcBlockLists
    /\ srcNodes \in SeqUpTo({"bb1", "bb2", "bb_missing"}, MaxNodes)
    /\ cLines = <<>>
    /\ serr = ""

SrcIdle ==
    /\ spc = "idle"
    /\ srcBlocks = <<>>
    /\ srcNodes = <<>>
    /\ cLines = <<>>
    /\ serr = ""

\* One call of findCHighlight.
FindCHighlight ==
    /\ spc = "ready"
    /\ LET r == findCHighlight(srcBlocks, srcNodes, <<>>)
       IN  IF r.ok
           THEN spc' = "returned" /\ cLines' = r.lines /\ UNCHANGED serr
           ELSE spc' = "failed" /\ serr' = "findBlock" /\ cLines' = r.lines
    /\ UNCHANGED <<srcBlocks, srcNodes>>
    /\ UNCHANGED <<envVars, walkVars, locVars, hlVars, runVars, tmpDirs>>

----------------------------------------------------------------------------
(* Page walk of one function *)

WalkInit ==
    /\ pc = "start"
    /\ funcName \in FuncNames
    /\ primsFile \in {PrimsFile(ps) : ps \in SeqUpTo(Primitives, MaxPrims)} \cup {NoFile}
    /\ prims = <<>>
    /\ npages = 0
    /\ page = 0
    /\ step = 0
    /\ subStep = ""
    /\ stepPrims = <<>>
    /\ handed = <<>>
    /\ files = {}
    /\ err = ""
    /\ pageLines = <<>>
    /\ failedOps = <<>>

WalkIdle ==
    /\ pc = "idle"
    /\ funcName = "main"
    /\ primsFile = NoFile
    /\ prims = <<>>
    /\ npages = 0
    /\ page = 0
    /\ step = 0
    /\ subStep = ""
    /\ stepPrims = <<>>
    /\ handed = <<>>
    /\ files = {}
    /\ err = ""
    /\ pageLines = <<>>
    /\ failedOps = <<>>

\* outputFuncVisualization, first part: parse the primitives of the function
\* and derive the page count.
ParsePrims ==
    /\ pc = "start"
    /\ IF ~primsFile.ok
       THEN /\ err' = "parsePrims"
            /\ failedOps' = Append(failedOps, "parsePrims")
            /\ pc' = "failed"
            /\ UNCHANGED <<prims, npages>>
       ELSE /\ prims' = primsFile.prims
            /\ npages' = pageCount(primsFile.prims)
            /\ pc' = "pages"
            /\ UNCHANGED <<err, failedOps>>
    /\ UNCHANGED <<funcName, primsFile, page, step, subStep, stepPrims, handed, files,
                   pageLines>>
    /\ UNCHANGED <<envVars, locVars, hlVars, runVars, srcVars, tmpDirs>>

\* The blocks of the function of the walk.
WalkBlocks == <<Block("bb1"), Block("bb2"), Block("bb3")>>

\* The primitive of a page: none on the page of step 0, the primitive
\* recovered by the step otherwise.
pagePrim(ps, st) ==
    IF st = 0
    THEN [present |-> FALSE, Nodes |-> <<>>]
    ELSE [present |-> TRUE, Nodes |-> ps[st].Nodes]

\* The IR lines to highlight for a primitive: none without a primitive ("if
\* prim != nil"), the loop of genLLVMHighlight otherwise.
pageHighlight(blocks, prim) ==
    IF ~prim.present
    THEN [status |-> "ok", ranges |-> <<>>, calls |-> 0]
    ELSE highlightLoop(blocks, FuncText(blocks), prim.Nodes, <<>>, 0)

\* outputCFA: fmt.Sprintf("%s_step_%04d%s.png", funcName, step, subStep)
cfgPNGName(fn, st, sub) == <<"%s_step_%04d%s.png", fn, st, sub>>

\* outputCFA: the image that dircopy.Copy puts into the output directory.
outputCFAImage(fn, st, sub) ==
    [name |-> cfgPNGName(fn, st, sub),
     data |-> [FuncName |-> fn, Step |-> st, SubStep |-> sub]]

\* The number of copies of the graph image that have failed so far.
CopyFailures == Cardinality({k \in 1..Len(failedOps) : failedOps[k] = "copyCFG"})

\* One page of the walk: the next page number, its step and sub-state, the
\* lines to highlight, then the overview page, the control flow analysis pane
\* (the copy of the graph image, whose result outputCFA does not look at, and
\* the HTML page) and the reconstructed Go pane of that page. failAt names the
\* collaborator call that fails, if any; copyFails tells whether the copy of
\* the graph image fails.
OutputPage ==
    /\ pc = "pages"
    /\ page < npages
    /\ LET p   == page + 1
           ss  == pageToStep(p)
           st  == ss[1]
           sub == ss[2]
           sp  == outputGoStepPrims(prims, st, sub)
           hl  == pageHighlight(WalkBlocks, pagePrim(prims, st))
       IN  /\ page' = p
           /\ step' = st
           /\ subStep' = sub
           /\ \E failAt \in {"", "outputOverview", "outputCFA", "outputGoHTML"} \cup DecompFailures :
              \E copyFails \in {c \in BOOLEAN : c => CopyFailures < MaxCopyFailures} :
                LET hlDone == hl.status = "ok"
                    overviewDone == hlDone /\ failAt # "outputOverview"
                    copied == overviewDone /\ ~copyFails
                    cfaDone == overviewDone /\ failAt # "outputCFA"
                    sliced == cfaDone
                    dec == explorer_decompGo(failAt)
                    goDone == sliced /\ ~sp.panic /\ dec.ok /\ failAt # "outputGoHTML"
                    e == IF ~hlDone THEN hl.status ELSE failAt
                IN  /\ files' = files
                          \cup (IF overviewDone THEN {outputOverview(funcName, p, npages, st, sub)} ELSE {})
                          \cup (IF copied THEN {outputCFAImage(funcName, st, sub)} ELSE {})
                          \cup (IF cfaDone THEN {outputCFAHTML(funcName, st, sub)} ELSE {})
                          \cup (IF goDone THEN {outputGoHTML(funcName, st, sub)} ELSE {})
                    /\ failedOps' = failedOps
                          \o (IF overviewDone /\ copyFails THEN <<"copyCFG">> ELSE <<>>)
                          \o (IF e # "" /\ e # "panic" /\ ~(sliced /\ sp.panic)
                              THEN <<e>> ELSE <<>>)
                    /\ tmpDirs' = tmpDirs + (IF sliced /\ ~sp.panic THEN dec.staged ELSE 0)
                    /\ IF hl.status = "panic" \/ (sliced /\ sp.panic)
                       THEN /\ pc' = "panic"
                            /\ UNCHANGED <<stepPrims, handed, err, pageLines>>
                       ELSE IF sliced
                       THEN /\ stepPrims' = sp.val
                            /\ handed' = Append(handed, [step |-> st, subStep |-> sub, stepPrims |-> sp.val])
                            /\ pageLines' = Append(pageLines, hl.ranges)
                            /\ err' = e
                            /\ pc' = IF e = "" THEN "pages" ELSE "failed"
                       ELSE /\ err' = e
                            /\ pc' = "failed"
                            /\ UNCHANGED <<stepPrims, handed, pageLines>>
    /\ UNCHANGED <<funcName, primsFile, prims, npages>>
    /\ UNCHANGED <<envVars, locVars, hlVars, runVars, srcVars>>

\* The walk ends once every page has been generated.
FinishWalk ==
    /\ pc = "pages"
    /\ page = npages
    /\ pc' = "done"
    /\ UNCHANGED <<funcName, primsFile, prims, npages, page, step, subStep,
                   stepPrims, handed, files, err, pageLines, failedOps>>
    /\ UNCHANGED <<envVars, locVars, hlVars, runVars, srcVars, tmpDirs>>

----------------------------------------------------------------------------
(* The output directory of one input (main.go): createHTMLDir, then the
   directories that genVisualization and its helpers read and write *)

\* An input path is <<name without its extension, extension>>; "-" is
\* standard input.
StdinPath == <<"-", "">>

LLPaths == {<<"foo", ".ll">>, <<"bar", "">>, StdinPath}

\* pathutil.TrimExt: the path without its extension.
TrimExt(p) == p[1]

\* base + "_explore" and base + "_graphs"
ExploreDir(base) == <<base, "_explore">>

GraphsDir(base) == <<base, "_graphs">>

DirNames == {ExploreDir(b) : b \in {"foo", "bar", "stdin", "-"}}

\* A directory that does not exist, and no directory name.
NoDir == [exists |-> FALSE, files |-> {}]

NoName == <<"", "">>

\* A file left in an output directory by an earlier run, and the inc
\* subdirectory that copyStyles creates.
OldFile == overviewHTMLName("old", 1)

IncDir == <<"inc", "", 0, "">>

\* getDOTDir: the graphs directory of an input path.
getDOTDir(llPath) ==
    IF llPath = StdinPath THEN GraphsDir("stdin") ELSE GraphsDir(TrimExt(llPath))

\* createHTMLDir, the name of the output directory of an input path.
htmlDirName(llPath) ==
    IF llPath = StdinPath THEN ExploreDir("stdin") ELSE ExploreDir(TrimExt(llPath))

\* exploreDir := pathutil.TrimExt(llPath) + "_explore" of genLLVMHighlight,
\* genOverview, copyStyles, highlightC and highlightGo.
trimExtExploreDir(llPath) == ExploreDir(TrimExt(llPath))

\* dotDir := pathutil.TrimExt(llPath) + "_graphs" of highlightGo.
trimExtGraphsDir(llPath) == GraphsDir(TrimExt(llPath))

\* newExplorer: the base, output directory and graphs directory of an input
\* path, computed once for the run.
newExplorer(llPath) ==
    LET base == IF llPath = StdinPath THEN "stdin" ELSE TrimExt(llPath)
    IN  [llPath |-> llPath, base |-> base,
         outputDir |-> ExploreDir(base), dotDir |-> GraphsDir(base)]

\* Variant of createHTMLDir: os.MkdirAll, which accepts an existing directory
\* and keeps its content.
createHTMLDir_mkdirAll(llPath, force, f, failAt, left) ==
    LET d == htmlDirName(llPath)
    IN  IF failAt = "Mkdir"
        THEN [err |-> "Mkdir", dir |-> NoName, dirs |-> f]
        ELSE [err |-> "", dir |-> d,
              dirs |-> [f EXCEPT ![d] = [exists |-> TRUE, files |-> f[d].files]]]

\* createHTMLDir: with force, os.RemoveAll of the directory (when it fails,
\* the files in left are still there); then os.Mkdir, which fails on an
\* existing directory.
createHTMLDir(llPath, force, f, failAt, left) ==
    LET d == htmlDirName(llPath)
        removed == IF force THEN [f EXCEPT ![d] = NoDir] ELSE f
    IN  IF force /\ f[d].exists /\ failAt = "RemoveAll"
        THEN [err |-> "RemoveAll", dir |-> NoName,
              dirs |-> [f EXCEPT ![d] = [exists |-> TRUE, files |-> left]]]
        ELSE IF removed[d].exists \/ failAt = "Mkdir"
        THEN [err |-> "Mkdir", dir |-> NoName, dirs |-> removed]
        ELSE [err |-> "", dir |-> d,
              dirs |-> [removed EXCEPT ![d] = [exists |-> TRUE, files |-> {}]]]

\* ioutil.WriteFile(filepath.Join(dir, name), ...): fails when the directory
\* does not exist.
writeFile(f, dir, name, fail) ==
    IF fail \/ ~f[dir].exists
    THEN [ok |-> FALSE, dirs |-> f]
    ELSE [ok |-> TRUE, dirs |-> [f EXCEPT ![dir] = [exists |-> TRUE, files |-> f[dir].files \cup {name}]]]

\* The files of one step of genVisualization with the directory each is
\* written to, in the order of the loop body: highlightC, highlightGo,
\* genOverview, the page of genStep (into htmlDir), genLLVMHighlight.
stepWrites(llPath, htmlDir, fn, st, c) ==
    (IF c THEN << <<trimExtExploreDir(llPath), cHTMLName(fn, st)>> >> ELSE <<>>)
    \o << <<trimExtExploreDir(llPath), highlightGoName(fn, st)>>,
          <<trimExtExploreDir(llPath), overviewHTMLName(fn, st)>>,
          <<htmlDir, cfaStepName(fn, st)>>,
          <<trimExtExploreDir(llPath), llvmHTMLName(fn, st)>> >>

\* The writes ws[k..] one after the other, up to the first that fails; the
\* write number failIdx fails whatever the directory.
RECURSIVE writeAll(_, _, _, _)
writeAll(f, ws, k, failIdx) ==
    IF k > Len(ws)
    THEN [err |-> "", dirs |-> f]
    ELSE LET r == writeFile(f, ws[k][1], ws[k][2], k = failIdx)
         IN  IF ~r.ok
             THEN [err |-> "WriteFile", dirs |-> f]
             ELSE writeAll(r.dirs, ws, k + 1, failIdx)

\* The directories an input path can touch.
DirsOf(llPath) == {htmlDirName(llPath), trimExtExploreDir(llPath)}

DirInit ==
    /\ dpc = "create"
    /\ dLLPath \in LLPaths
    /\ dForce \in BOOLEAN
    /\ dHasC \in BOOLEAN
    /\ dirs0 \in [DirNames -> {NoDir, [exists |-> TRUE, files |-> {}],
                             [exists |-> TRUE, files |-> {OldFile}]}]
    /\ \A d \in DirNames \ DirsOf(dLLPath) : dirs0[d] = NoDir
    /\ dirs = dirs0
    /\ madeDir = NoName
    /\ primsDirs = {}
    /\ dstep = 0
    /\ derr = ""

DirIdle ==
    /\ dpc = "idle"
    /\ dLLPath = StdinPath
    /\ dForce = FALSE
    /\ dHasC = FALSE
    /\ dirs0 = [d \in DirNames |-> NoDir]
    /\ dirs = dirs0
    /\ madeDir = NoName
    /\ primsDirs = {}
    /\ dstep = 0
    /\ derr = ""

\* main: createHTMLDir(llPath, force); an error ends the run.
DirCreate ==
    /\ dpc = "create"
    /\ \E failAt \in {"", "RemoveAll", "Mkdir"} :
       \E left \in SUBSET dirs[htmlDirName(dLLPath)].files :
         LET r == createHTMLDir(dLLPath, dForce, dirs, failAt, left)
         IN  /\ dirs' = r.dirs
             /\ madeDir' = r.dir
             /\ derr' = r.err
             /\ dpc' = IF r.err = "" THEN "start" ELSE "failed"
    /\ UNCHANGED <<dLLPath, dForce, dHasC, dirs0, primsDirs, dstep>>
    /\ UNCHANGED <<coreVars, styleVars, bootVars, goVars>>

\* genVisualization up to its loop: parsePrims(dotDir, funcName) with the
\* dotDir of getDOTDir, then copyStyles, which copies inc into exploreDir and
\* creates that directory when it is missing.
DirStart ==
    /\ dpc = "start"
    /\ primsDirs' = primsDirs \cup {getDOTDir(dLLPath)}
    /\ \E failAt \in {"", "parsePrims", "copyStyles"} :
         IF failAt # ""
         THEN /\ derr' = failAt
              /\ dpc' = "failed"
              /\ UNCHANGED dirs
         ELSE /\ dirs' = [dirs EXCEPT ![trimExtExploreDir(dLLPath)] =
                           [exists |-> TRUE, files |-> @.files \cup {IncDir}]]
              /\ dpc' = "steps"
              /\ UNCHANGED derr
    /\ UNCHANGED <<dLLPath, dForce, dHasC, dirs0, madeDir, dstep>>
    /\ UNCHANGED <<coreVars, styleVars, bootVars, goVars>>

\* genVisualization, one iteration of its loop, for the function f: the files
\* of the step are written, and highlightGo reads the primitives from its own
\* dotDir once the C page is written.
DirStep ==
    /\ dpc = "steps"
    /\ dstep < MaxDirSteps
    /\ \E failIdx \in 0..5 :
         LET ws == stepWrites(dLLPath, madeDir, "f", dstep + 1, dHasC)
             r  == writeAll(dirs, ws, 1, failIdx)
         IN  /\ dirs' = r.dirs
             /\ primsDirs' = primsDirs \cup
                   (IF dHasC /\ failIdx = 1 THEN {} ELSE {trimExtGraphsDir(dLLPath)})
             /\ dstep' = dstep + 1
             /\ derr' = r.err
             /\ dpc' = IF r.err = "" THEN "steps" ELSE "failed"
    /\ UNCHANGED <<dLLPath, dForce, dHasC, dirs0, madeDir>>
    /\ UNCHANGED <<coreVars, styleVars, bootVars, goVars>>

\* genVisualization returns after the last primitive of the function.
DirDone ==
    /\ dpc = "steps"
    /\ dpc' = "done"
    /\ UNCHANGED <<dLLPath, dForce, dHasC, dirs0, dirs, madeDir, primsDirs, dstep, derr>>
    /\ UNCHANGED <<coreVars, styleVars, bootVars, goVars>>

----------------------------------------------------------------------------
(* The style of the overview page and of its frames (inc/js/style.js) *)

\* The frames of the overview page (overview.tmpl) and the Chroma styles.
Frames == {"frame_c", "frame_llvm", "frame_cfa", "frame_go"}

Styles == {"monokai", "vs"}

\* localStorage.getItem of an item that is not stored.
Null == "null"

\* "inc/css/" + "chroma_" + style + ".css"
cssPath(style) == <<"inc/css/", "chroma_", style, ".css">>

\* Variant of update_style: the href is left as it is.
update_style_keep(style, h) == h

\* update_style: the href of the frame after the call, from the style that
\* get_style returns and the href before.
update_style(style, h) == IF style # Null THEN cssPath(style) ELSE h

StyleInit ==
    /\ stored \in Styles \cup {Null}
    /\ \E s \in Styles : href = [f \in Frames |-> cssPath(s)]
    /\ inflight = [f \in Frames |-> 0]
    /\ lastSet = Null
    /\ nSet = 0
    /\ nForeign = 0

StyleIdle ==
    /\ stored = Null
    /\ href = [f \in Frames |-> cssPath("monokai")]
    /\ inflight = [f \in Frames |-> 0]
    /\ lastSet = Null
    /\ nSet = 0
    /\ nForeign = 0

\* set_style(style): store the style, then send_update_style_event posts
\* "update_style" to every frame.
SetStyle ==
    /\ nSet < MaxSetStyle
    /\ \E s \in Styles :
         /\ stored' = s
         /\ lastSet' = s
    /\ inflight' = [f \in Frames |-> inflight[f] + 1]
    /\ nSet' = nSet + 1
    /\ UNCHANGED <<href, nForeign>>
    /\ UNCHANGED <<coreVars, dirVars, bootVars, goVars>>

\* The listener of a frame handles one "update_style" message: update_style.
HandleMessage ==
    /\ \E f \in Frames :
         /\ inflight[f] > 0
         /\ inflight' = [inflight EXCEPT ![f] = @ - 1]
         /\ href' = [href EXCEPT ![f] = update_style(stored, @)]
    /\ UNCHANGED <<stored, lastSet, nSet, nForeign>>
    /\ UNCHANGED <<coreVars, dirVars, bootVars, goVars>>

\* The listener takes "update_style" from any window: another window posts
\* the message to one frame.
ForeignMessage ==
    /\ nForeign < MaxForeign
    /\ \E f \in Frames : inflight' = [inflight EXCEPT ![f] = @ + 1]
    /\ nForeign' = nForeign + 1
    /\ UNCHANGED <<stored, href, lastSet, nSet>>
    /\ UNCHANGED <<coreVars, dirVars, bootVars, goVars>>

----------------------------------------------------------------------------
(* explorer.explore: explorer.init, then the pages of the functions *)

\* An output directory that does not exist, and one left by an earlier run.
AbsentOut == [exists |-> FALSE, inc |-> FALSE, chroma |-> {}]

OldOut == [exists |-> TRUE, inc |-> TRUE, chroma |-> {<<"chroma_", "vs", ".css">>}]

\* outputChromaStyle: filepath.Base(fmt.Sprintf("chroma_%s.css", e.style))
chromaCSSName(style) == <<"chroma_", style, ".css">>

\* Variant of explorer_initSteps: the includes are copied before the
\* templates are parsed.
explorer_initSteps_copyFirst ==
    <<"createOutputDir", "findRepoDir", "copyStyles", "parseTemplates", "outputChromaStyle">>

\* explorer.init: the calls it makes, in order.
explorer_initSteps ==
    <<"createOutputDir", "findRepoDir", "parseTemplates", "copyStyles", "outputChromaStyle">>

\* One call of explorer.init on the output directory out; fail tells whether
\* a collaborator of the call fails. createOutputDir removes the directory
\* with force and then makes it, which fails when it exists; copyStyles copies
\* inc into it; outputChromaStyle writes inc/css/chroma_<style>.css, which
\* fails when inc is not there.
explorer_initStep(name, force, style, out, fail) ==
    CASE name = "createOutputDir" ->
           LET removed == IF force THEN AbsentOut ELSE out
           IN  IF fail \/ removed.exists
               THEN [ok |-> FALSE, out |-> removed]
               ELSE [ok |-> TRUE, out |-> [removed EXCEPT !.exists = TRUE]]
      [] name = "copyStyles" ->
           IF fail \/ ~out.exists
           THEN [ok |-> FALSE, out |-> out]
           ELSE [ok |-> TRUE, out |-> [out EXCEPT !.inc = TRUE]]
      [] name = "outputChromaStyle" ->
           IF fail \/ ~out.inc
           THEN [ok |-> FALSE, out |-> out]
           ELSE [ok |-> TRUE, out |-> [out EXCEPT !.chroma = @ \cup {chromaCSSName(style)}]]
      [] OTHER -> [ok |-> ~fail, out |-> out]

BootInit ==
    /\ bpc = "init"
    /\ bForce \in BOOLEAN
    /\ bStyle \in Styles \cup {"nosuchstyle"}
    /\ bout \in {AbsentOut, OldOut}
    /\ bdone = <<>>
    /\ bpages = 0
    /\ berr = ""

BootIdle ==
    /\ bpc = "idle"
    /\ bForce = FALSE
    /\ bStyle = "monokai"
    /\ bout = AbsentOut
    /\ bdone = <<>>
    /\ bpages = 0
    /\ berr = ""

\* explorer.init, its next call: an error is returned at once, and explore
\* returns it.
BootInitStep ==
    /\ bpc = "init"
    /\ Len(bdone) < Len(explorer_initSteps)
    /\ LET name == explorer_initSteps[Len(bdone) + 1]
       IN  \E fail \in BOOLEAN :
             LET r == explorer_initStep(name, bForce, bStyle, bout, fail)
             IN  /\ bout' = r.out
                 /\ IF r.ok
                    THEN /\ bdone' = Append(bdone, name)
                         /\ bpc' = IF Len(bdone) + 1 = Len(explorer_initSteps)
                                   THEN "pages" ELSE "init"
                         /\ UNCHANGED berr
                    ELSE /\ berr' = name
                         /\ bpc' = "failed"
                         /\ UNCHANGED bdone
    /\ UNCHANGED <<bForce, bStyle, bpages>>
    /\ UNCHANGED <<coreVars, dirVars, styleVars, goVars>>

\* explore, its loop over the functions: outputFuncVisualization writes the
\* page of a function, or fails.
BootPage ==
    /\ bpc = "pages"
    /\ bpages < MaxBootPages
    /\ \E fail \in BOOLEAN :
         IF fail \/ ~bout.exists
         THEN /\ berr' = "outputFuncVisualization"
              /\ bpc' = "failed"
              /\ UNCHANGED bpages
         ELSE /\ bpages' = bpages + 1
              /\ UNCHANGED <<bpc, berr>>
    /\ UNCHANGED <<bForce, bStyle, bout, bdone>>
    /\ UNCHANGED <<coreVars, dirVars, styleVars, goVars>>

\* explore returns nil after the last function.
BootReturn ==
    /\ bpc = "pages"
    /\ bpc' = "returned"
    /\ UNCHANGED <<bForce, bStyle, bout, bdone, bpages, berr>>
    /\ UNCHANGED <<coreVars, dirVars, styleVars, goVars>>

----------------------------------------------------------------------------
(* explorer.parsePrims and explorer.decompGo, with the files they touch *)

\* Directories are sequences of path elements. The input is foo.ll in the
\* working directory; its graphs directory is foo_graphs; ioutil.TempDir makes
\* a fresh directory "decomp-".
WorkDir == <<>>

GoDotDir == <<"foo_graphs">>

TmpDir == <<"decomp-">>

\* e.llPath, and filepath.Base of it.
GoLLName == <<"foo", ".ll">>

\* funcName + ".json"
jsonName(fn) == <<fn, ".json">>

\* File contents: the LLVM IR module, or a JSON list of primitives.
IRContent == [ir |-> TRUE, prims |-> <<>>]

JSONContent(ps) == [ir |-> FALSE, prims |-> ps]

File(dir, name, content) == [dir |-> dir, name |-> name, content |-> content]

\* The file dir/name of fs, as a set of at most one record.
Lookup(fs, dir, name) == {f \in fs : f.dir = dir /\ f.name = name}

\* ioutil.WriteFile and dircopy.Copy to a file: create or replace.
WriteTo(fs, dir, name, content) ==
    (fs \ Lookup(fs, dir, name)) \cup {File(dir, name, content)}

\* os.RemoveAll(dir): everything below dir goes.
RemoveAll(fs, dir) ==
    {f \in fs : ~(Len(f.dir) >= Len(dir) /\ SubSeq(f.dir, 1, Len(dir)) = dir)}

\* explorer.parsePrims on the files: jsonutil.ParseFile of
\* <dotDir>/<funcName>.json.
parsePrimsFile(fs, fn) ==
    LET fl == Lookup(fs, GoDotDir, jsonName(fn))
    IN  IF fl = {} \/ \E f \in fl : f.content.ir
        THEN NoFile
        ELSE PrimsFile((CHOOSE f \in fl : TRUE).content.prims)

\* Variant of explorer.decompGo: the JSON file is written into the graphs
\* directory of the input instead of the one below the staging directory.
explorer_decompGoFiles_inPlace(fs, fn, ps, failAt) ==
    LET ll      == Lookup(fs, WorkDir, GoLLName)
        copyOK  == failAt # "dircopy.Copy" /\ ll # {}
        fs1     == IF copyOK THEN WriteTo(fs, TmpDir, GoLLName, IRContent) ELSE fs
        w1      == IF copyOK THEN {File(TmpDir, GoLLName, IRContent)} ELSE {}
        writeOK == copyOK /\ failAt \notin {"MkdirAll", "jsonutil.WriteFile"}
        fs2     == IF writeOK THEN WriteTo(fs1, GoDotDir, jsonName(fn), JSONContent(ps)) ELSE fs1
        w2      == IF writeOK THEN {File(GoDotDir, jsonName(fn), JSONContent(ps))} ELSE {}
    IN  IF failAt = "TempDir"
        THEN [ok |-> FALSE, files |-> fs, writes |-> {}]
        ELSE [ok |-> writeOK /\ failAt # "cmd.Run",
              files |-> RemoveAll(fs2, TmpDir),
              writes |-> w1 \cup w2]

\* explorer.decompGo on the files: TempDir, the deferred RemoveAll, the copy
\* of e.llPath into the staging directory, MkdirAll of <tmpDir>/foo_graphs,
\* the JSON file of the primitives written there, ll2go2 run in the staging
\* directory on the copy. The result: success, the files left, the files
\* written on the way.
explorer_decompGoFiles(fs, fn, ps, failAt) ==
    LET tmpDotDir == TmpDir \o GoDotDir
        ll      == Lookup(fs, WorkDir, GoLLName)
        copyOK  == failAt # "dircopy.Copy" /\ ll # {}
        fs1     == IF copyOK THEN WriteTo(fs, TmpDir, GoLLName, IRContent) ELSE fs
        w1      == IF copyOK THEN {File(TmpDir, GoLLName, IRContent)} ELSE {}
        writeOK == copyOK /\ failAt \notin {"MkdirAll", "jsonutil.WriteFile"}
        fs2     == IF writeOK THEN WriteTo(fs1, tmpDotDir, jsonName(fn), JSONContent(ps)) ELSE fs1
        w2      == IF writeOK THEN {File(tmpDotDir, jsonName(fn), JSONContent(ps))} ELSE {}
    IN  IF failAt = "TempDir"
        THEN [ok |-> FALSE, files |-> fs, writes |-> {}]
        ELSE [ok |-> writeOK /\ failAt # "cmd.Run",
              files |-> RemoveAll(fs2, TmpDir),
              writes |-> w1 \cup w2]

\* The files of a run: the IR file (absent when the input is standard input),
\* the primitive list of each function (absent when the analysis was not run).
GoInit ==
    /\ gpc = "parse"
    /\ gFunc \in FuncNames
    /\ gfiles \in {ll \cup UNION {{File(GoDotDir, jsonName(fn), JSONContent(ps[fn]))} :
                                     fn \in {g \in FuncNames : has[g]}} :
                     ll \in {{}, {File(WorkDir, GoLLName, IRContent)}},
                     has \in [FuncNames -> BOOLEAN],
                     ps \in [FuncNames -> SeqUpTo(RunPrimitives, MaxGoPrims)]}
    /\ gprims = <<>>
    /\ gpage = 0
    /\ gwrites = {}
    /\ gerr = ""

GoIdle ==
    /\ gpc = "idle"
    /\ gFunc = "main"
    /\ gfiles = {}
    /\ gprims = <<>>
    /\ gpage = 0
    /\ gwrites = {}
    /\ gerr = ""

\* outputFuncVisualization, its start: parse the primitives of the function.
GoParsePrims ==
    /\ gpc = "parse"
    /\ LET r == parsePrimsFile(gfiles, gFunc)
       IN  IF r.ok
           THEN /\ gprims' = r.prims
                /\ gpc' = "pages"
                /\ UNCHANGED gerr
           ELSE /\ gerr' = "parsePrims"
                /\ gpc' = "failed"
                /\ UNCHANGED gprims
    /\ UNCHANGED <<gFunc, gfiles, gpage, gwrites>>
    /\ UNCHANGED <<coreVars, dirVars, styleVars, bootVars>>

\* outputGo for the next page: the prefix of the primitives is handed to
\* decompGo.
GoPage ==
    /\ gpc = "pages"
    /\ gpage < pageCount(gprims)
    /\ LET ss == pageToStep(gpage + 1)
           sp == outputGoStepPrims(gprims, ss[1], ss[2])
       IN  \E failAt \in {""} \cup DecompFailures :
             LET dec == explorer_decompGoFiles(gfiles, gFunc, sp.val, failAt)
             IN  /\ gfiles' = dec.files
                 /\ gwrites' = gwrites \cup dec.writes
                 /\ gpage' = gpage + 1
                 /\ IF dec.ok
                    THEN UNCHANGED <<gpc, gerr>>
                    ELSE /\ gpc' = "failed"
                         /\ gerr' = IF failAt = "" THEN "dircopy.Copy" ELSE failAt
    /\ UNCHANGED <<gFunc, gprims>>
    /\ UNCHANGED <<coreVars, dirVars, styleVars, bootVars>>

\* Every page has been generated.
GoDone ==
    /\ gpc = "pages"
    /\ gpage = pageCount(gprims)
    /\ gpc' = "done"
    /\ UNCHANGED <<gFunc, gfiles, gprims, gpage, gwrites, gerr>>
    /\ UNCHANGED <<coreVars, dirVars, styleVars, bootVars>>

EnvIdle == DirIdle /\ StyleIdle /\ BootIdle /\ GoIdle

----------------------------------------------------------------------------
LocIdle ==
    /\ lpc = "idle"
    /\ funcStr = <<>>
    /\ blockStr = <<>>
    /\ lineRange = <<0, 0>>

HlIdle ==
    /\ hpc = "idle"
    /\ fnBlocks = <<>>
    /\ fnText = <<>>
    /\ primNodes = <<>>
    /\ highlightRanges = <<>>
    /\ locateCalls = 0
    /\ herr = ""
    /\ hstep = 0
    /\ hfiles = {}

Init == WalkInit /\ LocIdle /\ HlIdle /\ RunIdle /\ SrcIdle /\ tmpDirs = 0 /\ EnvIdle

Next == ParsePrims \/ OutputPage \/ FinishWalk

Spec == Init /\ [][Next]_vars

\* The locator on its own: every input, one call.
InitLocate == WalkIdle /\ LocInit /\ HlIdle /\ RunIdle /\ SrcIdle /\ tmpDirs = 0 /\ EnvIdle

NextLocate == Locate

SpecLocate == InitLocate /\ [][NextLocate]_vars

\* The highlight mapper on its own: every input, one call.
InitHighlight == WalkIdle /\ LocIdle /\ HlInit /\ RunIdle /\ SrcIdle /\ tmpDirs = 0 /\ EnvIdle

NextHighlight == GenLLVMHighlight

SpecHighlight == InitHighlight /\ [][NextHighlight]_vars

\* The run of main over its input files.
InitRun == WalkIdle /\ LocIdle /\ HlIdle /\ RunInit /\ SrcIdle /\ tmpDirs = 0 /\ EnvIdle

NextRun == RunFile \/ RunFunc \/ RunStep \/ RunFuncDone \/ RunFileDone \/ RunExit

SpecRun == InitRun /\ [][NextRun]_vars

\* genVisualization of the Explorer type for one function.
InitExplorer == WalkIdle /\ LocIdle /\ HlIdle /\ ExplorerInit /\ SrcIdle /\ tmpDirs = 0 /\ EnvIdle

NextExplorer == ExplorerGenStart \/ ExplorerStep \/ ExplorerReturn

SpecExplorer == InitExplorer /\ [][NextExplorer]_vars

\* The output directory of one input and the files written for it.
InitDir ==
    /\ WalkIdle /\ LocIdle /\ HlIdle /\ RunIdle /\ SrcIdle /\ tmpDirs = 0
    /\ DirInit /\ StyleIdle /\ BootIdle /\ GoIdle

NextDir == DirCreate \/ DirStart \/ DirStep \/ DirDone

SpecDir == InitDir /\ [][NextDir]_vars

\* The style of the overview page and its frames.
InitStyle ==
    /\ WalkIdle /\ LocIdle /\ HlIdle /\ RunIdle /\ SrcIdle /\ tmpDirs = 0
    /\ DirIdle /\ StyleInit /\ BootIdle /\ GoIdle

NextStyle == SetStyle \/ HandleMessage \/ ForeignMessage

SpecStyle == InitStyle /\ [][NextStyle]_vars

\* explorer.explore: the initialization and the function pages.
InitBoot ==
    /\ WalkIdle /\ LocIdle /\ HlIdle /\ RunIdle /\ SrcIdle /\ tmpDirs = 0
    /\ DirIdle /\ StyleIdle /\ BootInit /\ GoIdle

NextBoot == BootInitStep \/ BootPage \/ BootReturn

SpecBoot == InitBoot /\ [][NextBoot]_vars

\* The decompilation calls of one function, with the files they touch.
InitGo ==
    /\ WalkIdle /\ LocIdle /\ HlIdle /\ RunIdle /\ SrcIdle /\ tmpDirs = 0
    /\ DirIdle /\ StyleIdle /\ BootIdle /\ GoInit

NextGo == GoParsePrims \/ GoPage \/ GoDone

SpecGo == InitGo /\ [][NextGo]_vars

\* The source-line highlight mapper on its own: every input, one call.
InitSource == WalkIdle /\ LocIdle /\ HlIdle /\ RunIdle /\ SrcInit /\ tmpDirs = 0 /\ EnvIdle

NextSource == FindCHighlight

SpecSource == InitSource /\ [][NextSource]_vars

----------------------------------------------------------------------------
(* Claims about the Primitive Step Sequencer, checked under Spec *)

\* The primitive list the walk is about, as read from the JSON file.
N == Len(primsFile.prims)

\* C1: for a primitive list of length N and every page p in 1..1+2N,
\* pageToStep(p) is (0, no sub-state) when p = 1 and otherwise, with k = p-1,
\* step = ceil(k/2) with sub-state "a" for odd k and "b" for even k (page 2k ->
\* step k "a", page 2k+1 -> step k "b"); the step lies in 0..N and the
\* sub-state is none iff p = 1. The page the walk has generated last carries
\* the step and sub-state of that mapping.
C1_PageToStep ==
    /\ \A p \in 1..(1 + 2 * N) :
         LET ss == pageToStep(p)
             k  == p - 1
         IN  /\ p = 1 => ss = <<0, "">>
             /\ p > 1 => /\ 2 * ss[1] >= k
                         /\ 2 * (ss[1] - 1) < k
                         /\ (k % 2 = 1) => ss[2] = "a"
                         /\ (k % 2 = 0) => ss[2] = "b"
             /\ \A j \in 1..N :
                  /\ p = 2 * j => ss = <<j, "a">>
                  /\ p = 2 * j + 1 => ss = <<j, "b">>
             /\ ss[1] \in 0..N
             /\ (ss[2] = "") <=> (p = 1)
    /\ page >= 1 =>
         /\ page = 1 => (step = 0 /\ subStep = "")
         /\ \A j \in 1..N :
              /\ page = 2 * j => (step = j /\ subStep = "a")
              /\ page = 2 * j + 1 => (step = j /\ subStep = "b")
         /\ step \in 0..N
         /\ (subStep = "") <=> (page = 1)

\* C1 witness: the walk of a list of two or more primitives has reached page
\* 5, which is step 2 in sub-state "b".
C1_Witness == pc = "pages" /\ N >= 2 /\ page = 5 /\ step = 2 /\ subStep = "b"

\* C2: the primitives handed to the decompiler for a page are prims[0:step-1]
\* in sub-state "a" (1 <= step <= N), prims[0:step] in sub-state "b"
\* (1 <= step <= N) and the empty sequence when there is no sub-state; the
\* slice bounds are in range on every page of the walk (no run-time panic).
C2_PrimitivePrefix ==
    /\ pc # "panic"
    /\ \A p \in 1..Len(handed) :
         LET h == handed[p]
         IN  /\ h.subStep = "a" =>
                  /\ 1 <= h.step /\ h.step <= Len(prims)
                  /\ h.stepPrims = [i \in 1..(h.step - 1) |-> prims[i]]
             /\ h.subStep = "b" =>
                  /\ 1 <= h.step /\ h.step <= Len(prims)
                  /\ h.stepPrims = [i \in 1..h.step |-> prims[i]]
             /\ h.subStep = "" => (h.step = 0 /\ h.stepPrims = <<>>)
    /\ page >= 1 /\ Len(handed) = page => stepPrims = handed[page].stepPrims

\* C2 witness: a whole walk in which a non-empty "before merge" prefix and the
\* full list were handed over.
C2_Witness ==
    /\ pc = "done"
    /\ \E p \in 1..Len(handed) : handed[p].subStep = "a" /\ handed[p].stepPrims # <<>>
    /\ \E p \in 1..Len(handed) : handed[p].subStep = "b" /\ handed[p].stepPrims = prims

\* C3: for every page p > 1 the prefix has length step-1 in sub-state "a" and
\* length step in sub-state "b", and the prefix of (step, "b") is the prefix
\* of (step, "a") with exactly the primitive at index step-1 of the list
\* (prims[step], counting from 1) appended.
C3_PrefixLengths ==
    \A p \in 2..Len(handed) :
        LET h == handed[p]
            g == handed[p - 1]
        IN  /\ h.subStep = "a" => Len(h.stepPrims) = h.step - 1
            /\ h.subStep = "b" =>
                 /\ Len(h.stepPrims) = h.step
                 /\ g.subStep = "a"
                 /\ g.step = h.step
                 /\ h.stepPrims = Append(g.stepPrims, prims[h.step])

\* C3 witness: the "after merge" page of step 2 has been generated after its
\* "before merge" page.
C3_Witness ==
    /\ Len(handed) >= 5
    /\ handed[4].subStep = "a" /\ handed[5].subStep = "b"
    /\ Len(handed[5].stepPrims) = 2

\* C4: the page count used for the visualization of a function is
\* 1 + 2 * len(primitives).
C4_PageCount ==
    /\ pc \in {"pages", "done", "panic"} => npages = 1 + 2 * Len(prims)
    /\ pc \in {"pages", "done", "panic"} => prims = primsFile.prims
    /\ \A f \in files : f.name[1] = "%s_%04d.html" => f.data.NPages = 1 + 2 * Len(prims)

\* C4 witness: the walk of a list of two or more primitives has ended with
\* at least five pages.
C4_Witness == pc = "done" /\ Len(prims) >= 2 /\ npages >= 5 /\ page = npages

\* C5 as stated: p = 2*step + d with d = 0 for the initial page, 1 for
\* sub-state "a" and 2 for sub-state "b", and the numbering is monotonic.
C5_Original ==
    /\ page >= 1 =>
         page = 2 * step + (CASE subStep = "" -> 0 [] subStep = "a" -> 1 [] OTHER -> 2)
    /\ \A p \in 1..(1 + 2 * N) : \A q \in p..(1 + 2 * N) :
         pageToStep(p)[1] <= pageToStep(q)[1]

\* C5 amended: p = 2*step + d with d = 1 for the initial page, 0 for
\* sub-state "a" and 1 for sub-state "b", and the numbering is monotonic (a
\* larger page never has a smaller step).
C5_PageNumbering ==
    /\ page >= 1 =>
         page = 2 * step + (CASE subStep = "" -> 1 [] subStep = "a" -> 0 [] OTHER -> 1)
    /\ \A p \in 1..(1 + 2 * N) :
         LET ss == pageToStep(p)
         IN  p = 2 * ss[1] + (CASE ss[2] = "" -> 1 [] ss[2] = "a" -> 0 [] OTHER -> 1)
    /\ \A p \in 1..(1 + 2 * N) : \A q \in p..(1 + 2 * N) :
         pageToStep(p)[1] <= pageToStep(q)[1]

\* C5 witness: the walk has reached page 4, the "before merge" page of step 2.
C5_Witness == pc = "pages" /\ page = 4 /\ step = 2 /\ subStep = "a"

----------------------------------------------------------------------------
(* Claims about the Line-Range Locator, checked under SpecLocate *)

\* The offsets at which the block text occurs in the function text.
Occurrences == {i \in 0..Len(funcStr) : HasAt(funcStr, blockStr, i)}

\* The offset of the first occurrence.
FirstOccurrence == CHOOSE i \in Occurrences : \A j \in Occurrences : i <= j

\* The number of newline characters among the first i characters of s.
NewlinesIn(s, i) == Cardinality({j \in 1..i : s[j] = NL})

\* C6: for a substring that occurs in the container, locate returns
\* start = 1 + (newline characters in the container before the first
\* occurrence) and end = start + (newline characters in the substring); with
\* several occurrences the range is that of the first one.
C6_Locate ==
    /\ lpc = "returned" =>
         /\ Occurrences # {}
         /\ lineRange[1] = 1 + NewlinesIn(funcStr, FirstOccurrence)
         /\ lineRange[2] = lineRange[1] + NewlinesIn(blockStr, Len(blockStr))
    /\ (lpc # "ready" /\ Occurrences # {}) => lpc = "returned"

\* C6 witness: a block text holding a newline occurs twice, on different
\* lines, and the range returned starts after the first line.
C6_Witness ==
    /\ lpc = "returned"
    /\ Cardinality(Occurrences) >= 2
    /\ \E i \in Occurrences : NewlinesIn(funcStr, i) # NewlinesIn(funcStr, FirstOccurrence)
    /\ lineRange[1] >= 2
    /\ lineRange[2] > lineRange[1]

\* The first occurrence of the block text starts at line n of the function
\* text: n - 1 newline characters precede it.
StartsAtLine(n) == Occurrences # {} /\ NewlinesIn(funcStr, FirstOccurrence) = n - 1

NLPos(s) == {i \in 1..Len(s) : s[i] = NL}

\* The position of the n-th newline character of s.
NthNL(s, n) == CHOOSE i \in NLPos(s) : Cardinality({j \in NLPos(s) : j <= i}) = n

\* s has a line n (lines are separated by newline characters, as
\* strings.Split(s, "\n") separates them).
HasLine(s, n) == n >= 1 /\ Cardinality(NLPos(s)) >= n - 1

\* Lines from..to of s, without the newline character that ends the last one.
ExtractLines(s, from, to) ==
    LET first == IF from = 1 THEN 1 ELSE NthNL(s, from - 1) + 1
        last  == IF Cardinality(NLPos(s)) >= to THEN NthNL(s, to) - 1 ELSE Len(s)
    IN  SubSeq(s, first, last)

\* Lines lineRange[1]..lineRange[2] of the function text reproduce the block text.
RoundTrip ==
    /\ HasLine(funcStr, lineRange[1])
    /\ HasLine(funcStr, lineRange[2])
    /\ ExtractLines(funcStr, lineRange[1], lineRange[2]) = blockStr

\* The first occurrence of the block text starts at the beginning of a line
\* of the function text (at its first character or right after a newline
\* character) and ends at the end of a line (at its last character or right
\* before a newline character).
LineAligned ==
    LET i == FirstOccurrence
    IN  /\ i = 0 \/ funcStr[i] = NL
        /\ i + Len(blockStr) = Len(funcStr) \/ funcStr[i + Len(blockStr) + 1] = NL

----------------------------------------------------------------------------
(* Claims about the Highlight Mapper, checked under SpecHighlight *)

\* The text bt occurs in the text s.
OccursIn(s, bt) == \E i \in 0..Len(s) : HasAt(s, bt, i)

\* The nodes of the primitive that name a block of the function.
Named == {i \in 1..Len(primNodes) : \E j \in 1..Len(fnBlocks) : fnBlocks[j].name = primNodes[i]}

\* The block of the function node i names.
BlockOf(i) == CHOOSE b \in {fnBlocks[j] : j \in 1..Len(fnBlocks)} : b.name = primNodes[i]

\* The nodes whose block text does not occur in the function text.
Unlocatable == {i \in Named : ~OccursIn(fnText, BlockOf(i).text)}

\* The nodes at which the loop stops early.
Stops == Unlocatable \cup ((1..Len(primNodes)) \ Named)

\* The first of them.
FirstStop == CHOOSE i \in Stops : \A j \in Stops : i <= j

\* C9: when the block text does not occur in the function text,
\* lineRangeOfBlock panics: genLLVMHighlight returns neither an error value
\* nor a range for that block, the call is made once (no retry), nothing is
\* written and nothing runs afterwards.
C9_LocatePanic ==
    /\ hpc = "panic" <=> (hpc # "ready" /\ Stops # {} /\ FirstStop \in Unlocatable)
    /\ hpc = "panic" =>
         /\ herr = ""
         /\ hfiles = {}
         /\ Len(highlightRanges) = FirstStop - 1
         /\ locateCalls = FirstStop
         /\ ~ENABLED NextHighlight

\* C9 witness: the loop has collected the range of one node and panicked on
\* the next one, whose block text is not in the function text.
C9_Witness ==
    /\ hpc = "panic"
    /\ Len(highlightRanges) >= 1
    /\ Len(primNodes) > Len(highlightRanges) + 1

\* The range of a block text bt in the text s: 1 + the newline characters
\* before its first occurrence, and that plus the newline characters of bt.
RangeOf(s, bt) ==
    LET occ   == {i \in 0..Len(s) : HasAt(s, bt, i)}
        first == CHOOSE i \in occ : \A j \in occ : i <= j
        start == 1 + Cardinality({j \in 1..first : s[j] = NL})
    IN  <<start, start + Cardinality({j \in 1..Len(bt) : bt[j] = NL})>>

\* C10: for a primitive whose Nodes all name blocks of the function, the
\* ranges collected are exactly one per entry of Nodes, in the order of Nodes,
\* each the range of that block's text in the function text; they are not
\* merged, sorted or de-duplicated, so there are len(Nodes) of them, and they
\* are the lines highlighted in the file written.
C10_OneRangePerNode ==
    (hpc \in {"written", "failed"} /\ Named = 1..Len(primNodes)) =>
        /\ herr # "findBlock"
        /\ Len(highlightRanges) = Len(primNodes)
        /\ \A i \in 1..Len(primNodes) :
             highlightRanges[i] = RangeOf(fnText, BlockOf(i).text)
        /\ \A f \in hfiles : f.lines = highlightRanges

\* C10 witness: a primitive that lists a later block before an earlier one
\* and one block twice has its three ranges in the file written.
C10_Witness ==
    /\ hpc = "written"
    /\ Len(primNodes) = 3
    /\ primNodes[1] = primNodes[3]
    /\ Len(highlightRanges) = 3
    /\ highlightRanges[1][1] > highlightRanges[2][1]
    /\ \E f \in hfiles : Len(f.lines) = 3

----------------------------------------------------------------------------
(* Claims about the highlights of the page walk, checked under Spec *)

----------------------------------------------------------------------------
(* Claims about the run of main, checked under SpecRun *)

\* The files written for step st of function fn of input file i.
WrittenFor(i, fn, st) ==
    {k \in 1..Len(written) :
        /\ written[k].file = i
        /\ written[k].name[2] = fn
        /\ written[k].name[3] = st}

\* C11: when a primitive references a block name that is not in the function's
\* block list, resolving the highlights ends with the error of findBlock
\* (NotFound), the error is propagated without retry (the run stops at it),
\* and the page of that step is not generated: no file of that step of that
\* function has been written.
C11_StepNotGenerated ==
    rerr = "findBlock" =>
        /\ rpc = "fatal"
        /\ WrittenFor(fileIdx, funcs[funcIdx].name, rstep) = {}

\* The position in its module of the function an artifact belongs to.
FuncPos(i, fn) == CHOOSE k \in 1..Len(llPaths[i].funcs) : llPaths[i].funcs[k].name = fn

\* The input file, function and step of the k-th artifact written.
LogKey(k) == <<written[k].file, FuncPos(written[k].file, written[k].name[2]),
               written[k].name[3]>>

LexLeq(a, b) ==
    \/ a[1] < b[1]
    \/ a[1] = b[1] /\ a[2] < b[2]
    \/ a[1] = b[1] /\ a[2] = b[2] /\ a[3] <= b[3]

\* The function definitions selected in input file i, in module order.
SelectedDefs(i) ==
    SelectSeq(selectFuncs(llPaths[i], funcNames), LAMBDA f : Len(f.blocks) > 0)

\* The artifacts are written in the order of input file, function, step.
WalkInOrder ==
    \A k, l \in 1..Len(written) : k < l => LexLeq(LogKey(k), LogKey(l))

\* What one step of the run writes belongs to one step of one function of the
\* current input file, the step after the last one done.
OneStepAtATime ==
    written' # written =>
        /\ Len(written') > Len(written)
        /\ SubSeq(written', 1, Len(written)) = written
        /\ \A k \in (Len(written) + 1)..Len(written') :
              /\ written'[k].file = fileIdx
              /\ written'[k].name[2] = funcs[funcIdx].name
              /\ written'[k].name[3] = rstep + 1
        /\ rstep' = rstep + 1
        /\ fileIdx' >= fileIdx

\* At exit every step of every selected function definition of every input
\* file has its overview page written once.
AllPagesOnce ==
    rpc = "exit" =>
        \A i \in 1..Len(llPaths) :
           \A j \in 1..Len(SelectedDefs(i)) :
              LET f == SelectedDefs(i)[j]
              IN  \A st \in 1..Len(primsOf[f.name].prims) :
                     Cardinality({k \in 1..Len(written) :
                                     /\ written[k].file = i
                                     /\ written[k].name = overviewHTMLName(f.name, st)}) = 1

\* The number of steps of main still possible at most: every step of the run
\* lowers it, so the run has no infinite behaviour.
StepsLeft ==
    LET G == MaxRunPrims + 2
        F == 3 * G + 2
        filesAfter == (Len(llPaths) - fileIdx) * F
    IN  CASE rpc = "file"  -> IF fileIdx > Len(llPaths) THEN 1 ELSE filesAfter + F + 1
          [] rpc = "funcs" -> filesAfter + 2 + (Len(funcs) + 1 - funcIdx) * G
          [] rpc = "steps" -> filesAfter + 3 + (Len(funcs) - funcIdx) * G
                              + (Len(rprims) - rstep)
          [] OTHER         -> 0

\* The run is not stuck: the loop it is in either has a next element or ends
\* (an iteration over the primitives has no guard but rstep < Len(rprims)).
CanStep ==
    \/ rpc = "file" /\ ENABLED (RunFile \/ RunExit)
    \/ rpc = "funcs" /\ ENABLED (RunFunc \/ RunFileDone)
    \/ rpc = "steps" /\ (rstep < Len(rprims) \/ ENABLED RunFuncDone)

\* C16: the walk is sequential: the artifacts are written in the order of
\* input file, function in module order and step, one step at a time; the run
\* terminates (every step lowers the number of steps left, and the run stops
\* only at exit or at a fatal error), and at exit, which is reached when every
\* call succeeds, every step of every selected function is emitted exactly
\* once.
C16_SequentialWalk ==
    /\ []WalkInOrder
    /\ [][OneStepAtATime]_vars
    /\ [][StepsLeft' < StepsLeft /\ StepsLeft' >= 0]_vars
    /\ []((rpc \notin {"exit", "fatal"}) => CanStep)
    /\ [](rpc = "fatal" <=> rerr # "")
    /\ []AllPagesOnce

\* Two input files with functions, main and f both selected with primitives,
\* every call succeeded and the run has exited.
C16_Witness ==
    /\ rpc = "exit"
    /\ rerr = ""
    /\ Len(llPaths) = 2
    /\ \A i \in 1..2 : Len(SelectedDefs(i)) = 2
    /\ \A n \in FuncNames : Len(primsOf[n].prims) = MaxRunPrims
    /\ Len(written) >= 2 * 2 * MaxRunPrims * 4

\* C17: a fatal error on any step aborts the entire run: once an error has
\* occurred the run is at its fatal end, no step of it is possible any more,
\* and no further artifact is written, for the current function, for later
\* functions or for later input files.
C17_FatalAbortsRun ==
    /\ [][rerr # "" => written' = written /\ rerr' = rerr]_vars
    /\ [](rerr # "" => rpc = "fatal" /\ ~ENABLED NextRun)

\* The decompiler has failed on a step of main after artifacts were written,
\* with the function f and a second input file still to come.
C17_Witness ==
    /\ rerr = "cmd.Run"
    /\ written # <<>>
    /\ funcs[funcIdx].name = "main"
    /\ funcIdx < Len(funcs)
    /\ fileIdx < Len(llPaths)
    /\ llPaths[fileIdx + 1].ok /\ Len(llPaths[fileIdx + 1].funcs) > 0

\* C18 as stated: when a block referenced by a primitive does not exist in the
\* function, the function is abandoned and the run continues with the next
\* input file, if any.
C18_Original ==
    (rerr = "findBlock" /\ fileIdx < Len(llPaths)) =>
        /\ rpc # "fatal"
        /\ ENABLED NextRun

\* C18, amended: when a block referenced by a primitive does not exist in the
\* function, the failing step is not retried, the function is abandoned and
\* the whole run ends there: no later function and no later input file is
\* processed.
C18_NotFoundAbortsRun ==
    rerr = "findBlock" =>
        /\ rpc = "fatal"
        /\ ~ENABLED NextRun
        /\ \A k \in 1..Len(written) :
              LexLeq(LogKey(k), <<fileIdx, FuncPos(fileIdx, funcs[funcIdx].name), rstep>>)
        /\ Cardinality({k \in 1..Len(written) :
                           /\ written[k].file = fileIdx
                           /\ written[k].name = highlightGoName(funcs[funcIdx].name, rstep)}) <= 1

\* A primitive of f names the block bb2, which f does not have, and a second
\* input file with functions is still to come.
C18_Witness ==
    /\ rerr = "findBlock"
    /\ funcs[funcIdx].name = "f"
    /\ fileIdx < Len(llPaths)
    /\ llPaths[fileIdx + 1].ok /\ Len(llPaths[fileIdx + 1].funcs) > 0

----------------------------------------------------------------------------
(* Claims about the source-line highlight mapper, checked under SpecSource *)

\* The instructions of a block in order, followed by its terminator.
ValuesOf(b) == b.insts \o <<b.term>>

\* A value carries a debug source location: a !dbg attachment that is a
\* DILocation.
Carries(v) == \E a \in 1..Len(v) : v[a].Name = "dbg" /\ v[a].Node.kind = "DILocation"

\* The line of the debug source location of a value that carries one.
LineOf(v) ==
    v[CHOOSE a \in 1..Len(v) :
        /\ v[a].Name = "dbg" /\ v[a].Node.kind = "DILocation"
        /\ \A c \in 1..(a - 1) : ~(v[c].Name = "dbg" /\ v[c].Node.kind = "DILocation")].Node.Line

\* The block of the function that node i of the primitive names.
SrcBlockOf(i) ==
    CHOOSE b \in {srcBlocks[k] : k \in 1..Len(srcBlocks)} : b.name = srcNodes[i]

\* Every node of the primitive names a block of the function.
SrcAllNamed ==
    \A i \in 1..Len(srcNodes) : \E k \in 1..Len(srcBlocks) : srcBlocks[k].name = srcNodes[i]

\* The visits <<i, j>>: value j of the block of node i.
Visits == {<<i, j>> : i \in 1..Len(srcNodes), j \in 1..(MaxInsts + 2)}

\* The visits that exist and whose value carries a debug source location.
Carriers ==
    {w \in Visits : /\ w[2] <= Len(ValuesOf(SrcBlockOf(w[1])))
                    /\ Carries(ValuesOf(SrcBlockOf(w[1]))[w[2]])}

\* The number of carriers visited up to and including the visit w.
Rank(w) ==
    Cardinality({u \in Carriers : u[1] < w[1] \/ (u[1] = w[1] /\ u[2] <= w[2])})

\* C12: findCHighlight visits the blocks in Nodes order and, within a block,
\* the instructions in order and then the terminator; each of them that
\* carries a debug source location contributes exactly one range (line, line)
\* at its place in that order and the others contribute nothing; when none
\* carries one the result is the empty sequence and no error. The older
\* lineRangeOfBlockInC collects the same ranges for each block.
C12_SourceLines ==
    (spc # "ready" /\ SrcAllNamed) =>
        /\ spc = "returned"
        /\ serr = ""
        /\ Len(cLines) = Cardinality(Carriers)
        /\ \A w \in Carriers :
             cLines[Rank(w)] = <<LineOf(ValuesOf(SrcBlockOf(w[1]))[w[2]]),
                                 LineOf(ValuesOf(SrcBlockOf(w[1]))[w[2]])>>
        /\ (Carriers = {} => cLines = <<>>)
        /\ \A k \in 1..Len(srcBlocks) :
             lineRangeOfBlockInC(srcBlocks[k]) = findBlockLines(srcBlocks[k])

\* A call for the nodes bb2, bb1 where bb1 has an instruction with a debug
\* location and a terminator without one: three of the five values visited
\* contribute.
C12_Witness ==
    /\ spc = "returned"
    /\ srcNodes = <<"bb2", "bb1">>
    /\ srcBlocks[1].insts = << <<Tbaa, DbgLoc(MaxLine)>> >>
    /\ srcBlocks[1].term = <<DbgOther>>
    /\ cLines = << <<1, 1>>, <<MaxLine, MaxLine>> >>

\* C13: every highlight range that is emitted, for the source text
\* (findCHighlight) and for the IR text (genLLVMHighlight), is in 1-based
\* inclusive line coordinates: 1 <= start <= end.
C13_OneBased ==
    /\ spc = "returned" =>
         \A k \in 1..Len(cLines) : 1 <= cLines[k][1] /\ cLines[k][1] <= cLines[k][2]
    /\ hpc = "written" =>
         \A k \in 1..Len(highlightRanges) :
            1 <= highlightRanges[k][1] /\ highlightRanges[k][1] <= highlightRanges[k][2]

----------------------------------------------------------------------------
(* Claims about Explorer.genVisualization, checked under SpecExplorer *)

\* C15: for a function with at least one basic block and zero recovered
\* primitives, when no collaborator call fails, the generation completes
\* without failure and emits the initial overview page, page 1, and nothing
\* of any later step.
C15_ZeroPrimitives ==
    (/\ rpc \notin {"idle", "gen"}
     /\ Len(funcs[funcIdx].blocks) >= 1
     /\ primsOf[funcs[funcIdx].name] = PrimsFile(<<>>)
     /\ rerr = "") =>
        /\ rpc \in {"steps1", "returned"}
        /\ rpc = "returned" =>
             /\ \E k \in 1..Len(written) :
                  written[k].name = overviewHTMLName(funcs[funcIdx].name, 1)
             /\ \A k \in 1..Len(written) : written[k].name[3] <= 1

----------------------------------------------------------------------------
(* Claims about failures and staging directories *)

\* C19: every failure of a delegated operation during generation is returned
\* to the top level and halts the generation: as soon as an operation has
\* failed, the walk has stopped with the error of that operation, which is
\* the only failure, the copy of the graph image in outputCFA included.
C19_NoFailureSwallowed ==
    failedOps # <<>> =>
        /\ pc = "failed"
        /\ Len(failedOps) = 1
        /\ err = failedOps[1]

\* C20: every decompilation call that creates a staging directory deletes it
\* before it returns, on the success path and on every error path: at every
\* point of the run no staging directory remains.
C20_NoStagingDirLeft == tmpDirs = 0

----------------------------------------------------------------------------
(* Claims about the selection of functions and the artifacts of a run,
   checked under SpecRun *)

\* A function of the module is to be visualized: it has at least one basic
\* block, and the -funcs set is empty or contains its name.
ToVisualize(f) ==
    /\ Len(f.blocks) >= 1
    /\ funcNames = {} \/ f.name \in funcNames

\* The functions of input file i that are to be visualized.
ToVisualizeIn(i) ==
    {llPaths[i].funcs[k] : k \in {j \in 1..Len(llPaths[i].funcs) : ToVisualize(llPaths[i].funcs[j])}}

\* genVisualization starts for the current function: explore goes from its
\* loop over the functions into the steps of one, or fails at its start.
StartsVisualization ==
    /\ rpc = "funcs"
    /\ funcIdx <= Len(funcs)
    /\ rpc' = "steps" \/ rerr' # rerr

\* explore passes over the current function without calling genVisualization.
SkipsFunction ==
    /\ rpc = "funcs"
    /\ funcIdx <= Len(funcs)
    /\ rpc' = "funcs"
    /\ funcIdx' = funcIdx + 1

\* C21: a visualization is generated for a function f of the module if and
\* only if f has at least one basic block and the -funcs set is empty or
\* contains f's name: genVisualization starts exactly for those functions,
\* every artifact written belongs to one of them, and at exit each of them
\* that has primitives has artifacts.
C21_SelectedFunctions ==
    /\ [][/\ StartsVisualization => ToVisualize(funcs[funcIdx])
          /\ SkipsFunction => ~ToVisualize(funcs[funcIdx])]_vars
    /\ [](rpc \in {"funcs", "steps"} =>
            /\ \A f \in ToVisualizeIn(fileIdx) : \E k \in 1..Len(funcs) : funcs[k] = f
            /\ \A k \in 1..Len(funcs) :
                  /\ \E j \in 1..Len(llPaths[fileIdx].funcs) : llPaths[fileIdx].funcs[j] = funcs[k]
                  /\ funcNames = {} \/ funcs[k].name \in funcNames)
    /\ [](\A k \in 1..Len(written) :
             \E f \in ToVisualizeIn(written[k].file) : f.name = written[k].name[2])
    /\ [](rpc = "exit" =>
            \A i \in 1..Len(llPaths) : \A f \in ToVisualizeIn(i) :
               Len(primsOf[f.name].prims) >= 1 =>
                  \E k \in 1..Len(written) :
                     written[k].file = i /\ written[k].name[2] = f.name)

\* -funcs names f only: the run has exited with artifacts of f, and main,
\* which has basic blocks and primitives, has none.
C21_Witness ==
    /\ rpc = "exit"
    /\ funcNames = {"f"}
    /\ Len(primsOf["main"].prims) >= 1
    /\ \E k \in 1..Len(written) : written[k].name[2] = "f"
    /\ \A k \in 1..Len(written) : written[k].name[2] # "main"

----------------------------------------------------------------------------
(* Claims about the output directory of an input, checked under SpecDir *)

\* The output directory that is created for the input.
CreatedDir == htmlDirName(dLLPath)

\* C22: when the output directory of the input already exists and -f is not
\* set, the creation fails, the directory keeps its content and nothing is
\* written for the input; when -f is set and the creation succeeds, the
\* directory is fresh (it exists and is empty) before any artifact is written
\* and never holds a file of the old directory again.
C22_CreateOutputDir ==
    /\ (dpc # "create" /\ dirs0[CreatedDir].exists /\ ~dForce) =>
          /\ dpc = "failed"
          /\ derr = "Mkdir"
          /\ madeDir = NoName
          /\ dirs = dirs0
    /\ (dpc = "start" /\ dForce) =>
          /\ madeDir = CreatedDir
          /\ dirs[CreatedDir] = [exists |-> TRUE, files |-> {}]
    /\ (dForce /\ madeDir # NoName) => OldFile \notin dirs[CreatedDir].files

\* -f is set, the directory foo_explore held a file of an earlier run, and the
\* run has written the pages of two steps into the new directory.
C22_Witness ==
    /\ dForce
    /\ dLLPath = <<"foo", ".ll">>
    /\ OldFile \in dirs0[CreatedDir].files
    /\ dpc = "done"
    /\ dstep = 2
    /\ overviewHTMLName("f", 2) \in dirs[CreatedDir].files

\* -f is not set and the directory exists: the creation has failed.
C22_WitnessNoForce ==
    /\ ~dForce
    /\ OldFile \in dirs0[CreatedDir].files
    /\ dpc = "failed"
    /\ derr = "Mkdir"

\* C28: for every input path, standard input included, every artifact of the
\* run is written inside the output directory that was created for the input
\* (no other directory is created or changed), and the primitives are read
\* from the graphs directory derived for the input, the one that the
\* explorer of the input holds: all operations derive the same two names.
C28_SameDirectories ==
    /\ \A d \in DirNames : dirs[d] # dirs0[d] => d = CreatedDir
    /\ madeDir # NoName => madeDir = newExplorer(dLLPath).outputDir
    /\ primsDirs \subseteq {getDOTDir(dLLPath)}
    /\ getDOTDir(dLLPath) = newExplorer(dLLPath).dotDir

----------------------------------------------------------------------------
(* Claims about the names of the artifacts, checked under Spec *)

\* The names of the files written so far.
FileNames == {f.name : f \in files}

\* The HTML pages written so far (every file but the graph images).
PageNames == {n \in FileNames : n[1] # "%s_step_%04d%s.png"}

----------------------------------------------------------------------------
(* Claims about the style of the overview page, checked under SpecStyle *)

\* A frame handles a message.
Handles(f) == inflight'[f] < inflight[f]

\* C24: after any sequence of set_style calls, once every posted
\* "update_style" message has been handled by its frame, the href of every
\* frame is "inc/css/chroma_<s>.css" with s the style of the last set_style
\* call, whatever the order of delivery; a frame that handles a message while
\* no style is stored leaves its href unchanged.
C24_StylePropagation ==
    /\ []((lastSet # Null /\ \A f \in Frames : inflight[f] = 0) =>
             \A f \in Frames : href[f] = <<"inc/css/", "chroma_", lastSet, ".css">>)
    /\ [][\A f \in Frames : (Handles(f) /\ stored = Null) => href'[f] = href[f]]_vars

\* Two set_style calls, the last one with "vs" changing the style, and every
\* message handled, one of another window included.
C24_Witness ==
    /\ nSet = 2
    /\ nForeign = 1
    /\ lastSet = "vs"
    /\ \A f \in Frames : inflight[f] = 0 /\ href[f] = cssPath("vs")

\* A frame has handled the message of another window while no style was
\* stored.
C24_WitnessNoStyle ==
    /\ stored = Null
    /\ nForeign = 1
    /\ \A f \in Frames : inflight[f] = 0

----------------------------------------------------------------------------
(* Claims about the pagination of the overview pages, checked under Spec *)

\* The overview pages written so far.
Overviews == {f \in files : f.name[1] = "%s_%04d.html"}

\* The pagination rendered on an overview page.
PaginationOf(f) == renderPagination(f.data, overviewPages(f.data.NPages))

\* The page numbers that the links of a pagination target.
LinkTargets(r) ==
    {l.target[3] : l \in {l \in {r.first, r.prev, r.next, r.last} : l.present}}
    \cup {r.entries[i].link.target[3] :
             i \in {j \in 1..Len(r.entries) : r.entries[j].link.present}}

\* The pages visited by following 'Next' from page p, over the overview pages
\* written.
RECURSIVE FollowNext(_)
FollowNext(p) ==
    LET here == {f \in Overviews : f.data.CurPage = p}
    IN  IF here = {} THEN <<>>
        ELSE LET r == PaginationOf(CHOOSE f \in here : TRUE)
             IN  IF r.next.present THEN <<p>> \o FollowNext(r.next.target[3]) ELSE <<p>>

\* C25: on the overview page of page p of npages, 1 <= p <= npages:
\* 'Previous' is present iff p > 1 and targets p-1, 'Next' is present iff
\* p < npages and targets p+1, the first and last links target 1 and npages,
\* exactly the entry p of the page list is current, every link target lies in
\* 1..npages; and once the walk is done, following 'Next' from page 1 visits
\* 1, 2, ..., npages in order and stops.
C25_Pagination ==
    /\ \A f \in Overviews :
          LET p  == f.data.CurPage
              np == f.data.NPages
              r  == PaginationOf(f)
          IN  /\ 1 <= p /\ p <= np
              /\ f.name = <<"%s_%04d.html", funcName, p, "">>
              /\ r.prev.present <=> p > 1
              /\ r.prev.present => r.prev.target = <<"%s_%04d.html", funcName, p - 1, "">>
              /\ r.next.present <=> p < np
              /\ r.next.present => r.next.target = <<"%s_%04d.html", funcName, p + 1, "">>
              /\ r.first.present /\ r.first.target = <<"%s_%04d.html", funcName, 1, "">>
              /\ r.last.present /\ r.last.target = <<"%s_%04d.html", funcName, np, "">>
              /\ Len(r.entries) = np
              /\ \A i \in 1..np :
                    /\ r.entries[i].page = i
                    /\ r.entries[i].current <=> i = p
                    /\ ~r.entries[i].current =>
                          r.entries[i].link.target = <<"%s_%04d.html", funcName, i, "">>
              /\ LinkTargets(r) \subseteq 1..np
    /\ pc = "done" => FollowNext(1) = [i \in 1..npages |-> i]

\* The walk of a function with two primitives is done: five overview pages,
\* among them the first, a middle and the last one.
C25_Witness ==
    /\ pc = "done"
    /\ npages = 5
    /\ Cardinality(Overviews) = 5
    /\ FollowNext(1) = <<1, 2, 3, 4, 5>>

----------------------------------------------------------------------------
(* Claims about the pages of Explorer.genVisualization, checked under
   SpecExplorer *)

\* The numbers of the overview pages written for the function fn.
OverviewsWritten(fn) ==
    {written[k].name[3] : k \in {j \in 1..Len(written) :
                                    /\ written[j].name[1] = "%s_%04d.html"
                                    /\ written[j].name[2] = fn}}

\* C26: after a successful run for a function, every page number listed in
\* the pagination of any of its overview pages is the number of an overview
\* page written for the function, and the number of overview pages written is
\* the page count passed to the pagination.
C26_PaginationWritten ==
    rpc = "returned" =>
        LET fn == funcs[funcIdx].name
            nsteps == Explorer_nsteps(rprims)
        IN  /\ \A st \in 1..Len(rprims) :
                  LET d == Explorer_genOverviewData(fn, st, nsteps)
                  IN  /\ \A i \in 1..Len(d.Pages) : d.Pages[i] \in OverviewsWritten(fn)
                      /\ d.NSteps \in OverviewsWritten(fn)
                      /\ d.Next <= d.NSteps => d.Next \in OverviewsWritten(fn)
            /\ Len(rprims) >= 1 => Cardinality(OverviewsWritten(fn)) = nsteps

----------------------------------------------------------------------------
(* Claims about the frames of the overview pages, checked under Spec *)

\* C27: every frame that an overview page embeds refers to the file name
\* under which the corresponding output operation writes its artifact for the
\* same function, step and sub-state: the source pane to the page of
\* outputCHTML, the IR pane to the page of genLLVMHighlight, the control flow
\* analysis pane to the page of outputCFAHTML and the Go pane to the page of
\* outputGoHTML.
C27_FramesWritten ==
    \A f \in Overviews :
       LET d  == f.data
           fr == overviewFrames(d)
       IN  /\ fr.frame_cfa = cfaHTMLName(d.FuncName, d.Step, d.SubStep)
           /\ fr.frame_go = goHTMLName(d.FuncName, d.Step, d.SubStep)
           /\ fr.frame_c = cHTMLName(d.FuncName, d.CurPage)
           /\ fr.frame_llvm = llvmHTMLName(d.FuncName, d.Step)

\* The part of C27 that holds: the control flow analysis and Go frames of a
\* complete page refer to files that were written.
FramesCfaGoWritten ==
    \A f \in Overviews :
       (f.data.CurPage < page \/ pc \in {"pages", "done"}) =>
          /\ overviewFrames(f.data).frame_cfa \in FileNames
          /\ overviewFrames(f.data).frame_go \in FileNames

----------------------------------------------------------------------------
(* Claims about the initialization of an input, checked under SpecBoot *)

\* s is a prefix of t.
IsPrefix(s, t) == Len(s) <= Len(t) /\ \A i \in 1..Len(s) : s[i] = t[i]

\* C29: the initialization runs in the order create output directory, locate
\* repository directory, parse templates, copy the style includes, write the
\* Chroma stylesheet; each step runs only if all earlier ones succeeded (after
\* an error nothing more happens); the Chroma stylesheet of this run is
\* written only after the includes were copied; and no function page is
\* written before the initialization has completed successfully.
C29_InitOrder ==
    /\ [](IsPrefix(bdone, <<"createOutputDir", "findRepoDir", "parseTemplates",
                            "copyStyles", "outputChromaStyle">>))
    /\ [][(Len(bdone') > Len(bdone)) => (berr = "" /\ Len(bdone') = Len(bdone) + 1)]_vars
    /\ [][berr # "" => UNCHANGED bootVars]_vars
    /\ []((berr # "") <=> (bpc = "failed"))
    /\ []((\E i \in 1..Len(bdone) : bdone[i] = "outputChromaStyle") =>
             /\ \E j \in 1..Len(bdone) : bdone[j] = "copyStyles"
             /\ bout.exists /\ bout.inc
             /\ <<"chroma_", bStyle, ".css">> \in bout.chroma)
    /\ [](bpages > 0 => (Len(bdone) = 5 /\ bout.exists /\ bout.inc))
    /\ [](bpc \in {"pages", "returned"} => Len(bdone) = 5)

\* With -f over the directory of an earlier run, the initialization has
\* completed and the pages of the functions are written.
C29_Witness ==
    /\ bpc = "returned"
    /\ bForce
    /\ bStyle = "monokai"
    /\ Len(bdone) = 5
    /\ bout.chroma = {chromaCSSName("monokai")}
    /\ bpages = MaxBootPages

----------------------------------------------------------------------------
(* Claims about the files of a decompilation call, checked under SpecGo *)

\* The inputs of the run among the files fs: the IR file and the primitive
\* list files of the graphs directory.
RunInputs(fs) == {f \in fs : f.dir \in {WorkDir, GoDotDir}}

\* C30: a decompilation call leaves the inputs of the run unchanged: the IR
\* file and <graphsDir>/<funcName>.json are the same before and after every
\* page; everything written is below the temporary staging directory, and
\* the primitive prefix goes only to a JSON file there; the primitive list
\* held in memory is the same before and after generating any page.
C30_InputsUnchanged ==
    /\ [][gpc = "pages" =>
            /\ RunInputs(gfiles') = RunInputs(gfiles)
            /\ gprims' = gprims]_vars
    /\ [](\A f \in gwrites :
            /\ Len(f.dir) >= 1 /\ f.dir[1] = "decomp-"
            /\ ~f.content.ir => (f.dir = TmpDir \o GoDotDir /\ f.name = jsonName(gFunc)))
    /\ [](gpc \in {"pages", "done"} => parsePrimsFile(gfiles, gFunc) = PrimsFile(gprims))

\* Every page of a function with two primitives has been generated: the
\* prefixes of length 0, 1 and 2 were written to the staging directory, and
\* the inputs are as they were.
C30_Witness ==
    /\ gpc = "done"
    /\ Len(gprims) = 2
    /\ gpage = 5
    /\ \A k \in 0..2 :
         File(TmpDir \o GoDotDir, jsonName(gFunc), JSONContent(SubSeq(gprims, 1, k))) \in gwrites
    /\ Lookup(gfiles, WorkDir, GoLLName) # {}
    /\ parsePrimsFile(gfiles, gFunc) = PrimsFile(gprims)

====
